---------------------------- MODULE Spec2Model ----------------------------
(***************************************************************************)
(* Night Report Dashboard: the text-to-record parsing engine.              *)
(*                                                                         *)
(* Text is modelled as a sequence of one-character strings, so that the    *)
(* regular expressions of the source are computed position by position.    *)
(* Every entry point of the source (idToCode, deriveStatusTag,             *)
(* parseReport, ...) is run as a small state machine: op names the entry   *)
(* point, arg its argument, pc the position in its body, ret its result.   *)
(***************************************************************************)
EXTENDS Integers, Sequences, FiniteSets, TLC

VARIABLES
  op,       \* the entry point being executed
  pc,       \* position inside the entry point
  arg,      \* its argument
  ret,      \* its return value (<<>> until it returns)
  lines,    \* parseReport, parseHOTO: the lines of the text
  idx,      \* index of the next element of the array being scanned
  current,  \* parseReport: code of the open entry; parseTelegramDefects: <<the open
            \* accumulator>>; <<>> for null
  entries,  \* parseReport: code -> entry
  blocks,   \* parseTelegramDefects: the blocks of the text
  byCode,   \* parseTelegramDefects: code -> record
  section,  \* parseHOTO: the open section ("null" for null)
  currentCode,  \* parseHOTO: the open code (<<>> for null)
  out,      \* parseHOTO: the document being built
  \* state of the App component (main.jsx; selectedDate, reportTitle and raw also App.jsx)
  user, selectedDate, reportTitle, raw, followLatest,
  hotoRaw, hotoTicks, hotoDone, cloudDates,
  docUnsubRef,  \* the date whose listener docUnsubRef.current cancels (<<>> for null)
  \* the document store and what is in flight between it and the component
  db,           \* collection "reports": date -> document
  listeners,    \* the dates with a live per-document listener
  snapshots,    \* the listeners that have a snapshot to deliver ("reports" or a date)
  requests,     \* the setDoc and deleteDoc calls awaiting their outcome
  \* App.jsx
  reports,      \* state reports: date -> report
  storage,      \* localStorage item "night_reports_by_date", parsed
  readers       \* FileReaders that have not yet fired onload

editor == <<selectedDate, reportTitle, raw, hotoRaw, hotoTicks, hotoDone>>
cloud == <<user, followLatest, cloudDates, docUnsubRef, db, listeners, snapshots, requests>>
local == <<reports, storage, readers>>
app == <<editor, cloud, local>>
scratchButOut == <<lines, idx, current, entries, blocks, byCode, section, currentCode>>
scratch == <<scratchButOut, out>>
locals == <<scratch, app>>
notReport == <<blocks, byCode, section, currentCode, out, app>>
notTelegram == <<lines, entries, section, currentCode, out, app>>
notHOTO == <<current, entries, blocks, byCode, app>>
notRTS == <<current, entries, blocks, byCode, section, currentCode, app>>
notWeek == <<lines, current, entries, byCode, section, currentCode, app>>
notGenerate == <<idx, current, entries, blocks, byCode, section, currentCode, app>>
vars == <<op, pc, arg, ret, scratch, app>>

\* null / undefined / "" of the source, where the value is otherwise a sequence
Null == <<>>

-----------------------------------------------------------------------------
(* Characters and the regular-expression character classes of JavaScript.  *)

UpperSeq ==
  <<"A","B","C","D","E","F","G","H","I","J","K","L","M",
    "N","O","P","Q","R","S","T","U","V","W","X","Y","Z">>
LowerSeq ==
  <<"a","b","c","d","e","f","g","h","i","j","k","l","m",
    "n","o","p","q","r","s","t","u","v","w","x","y","z">>
DigitSeq == <<"0","1","2","3","4","5","6","7","8","9">>

UpperSet == {UpperSeq[i] : i \in 1..26}
LowerSet == {LowerSeq[i] : i \in 1..26}
DigitSet == {DigitSeq[i] : i \in 1..10}

\* \d
IsDigit(c) == c \in DigitSet
\* \w
IsWordCh(c) == c \in UpperSet \/ c \in LowerSet \/ c \in DigitSet \/ c = "_"
\* \s
IsSpace(c) == c \in {" ", "\t", "\n", "\r"}
\* [A-Z] and [a-z] under flag i
IsAlpha(c) == c \in UpperSet \/ c \in LowerSet

lowerOf == [c \in UpperSet |-> LowerSeq[CHOOSE i \in 1..26 : UpperSeq[i] = c]]
upperOf == [c \in LowerSet |-> UpperSeq[CHOOSE i \in 1..26 : LowerSeq[i] = c]]

LowerCh(c) == IF c \in UpperSet THEN lowerOf[c] ELSE c
UpperCh(c) == IF c \in LowerSet THEN upperOf[c] ELSE c

\* String.prototype.toLowerCase / toUpperCase
toLowerCase(s) == [i \in 1..Len(s) |-> LowerCh(s[i])]
\* a toUpperCase that leaves the letters as they are
toUpperCase_Id(s) == s
toUpperCase(s) == [i \in 1..Len(s) |-> UpperCh(s[i])]

\* The literal w occurs in s at position i.
At(s, i, w) == i >= 1 /\ i + Len(w) - 1 <= Len(s) /\ SubSeq(s, i, i + Len(w) - 1) = w
\* The literal w occurs in s at position i, letters compared case-insensitively (flag i).
AtCI(s, i, w) ==
  /\ i >= 1
  /\ i + Len(w) - 1 <= Len(s)
  /\ \A k \in 1..Len(w) : LowerCh(s[i + k - 1]) = LowerCh(w[k])
\* /w/.test(s) for a literal w
Contains(s, w) == \E i \in 1..Len(s) : At(s, i, w)
\* \b at the gap before position i (i in 1..Len(s)+1)
Boundary(s, i) ==
  LET before == i > 1 /\ i - 1 <= Len(s) /\ IsWordCh(s[i - 1])
      after  == i >= 1 /\ i <= Len(s) /\ IsWordCh(s[i])
  IN  before # after

\* Index of the first character at or after i that is not white space (Len+1 if none).
RECURSIVE SkipSpace(_, _)
SkipSpace(s, i) == IF i <= Len(s) /\ IsSpace(s[i]) THEN SkipSpace(s, i + 1) ELSE i

\* Index of the last character at or before i that is not white space (0 if none).
RECURSIVE SkipSpaceBack(_, _)
SkipSpaceBack(s, i) == IF i >= 1 /\ IsSpace(s[i]) THEN SkipSpaceBack(s, i - 1) ELSE i

\* String.prototype.trim
trim(s) == SubSeq(s, SkipSpace(s, 1), SkipSpaceBack(s, Len(s)))

\* Array.prototype.join
RECURSIVE join(_, _)
join(ss, sep) ==
  IF Len(ss) = 0 THEN <<>>
  ELSE IF Len(ss) = 1 THEN ss[1]
  ELSE ss[1] \o sep \o join(Tail(ss), sep)

\* String(n) for an integer n
RECURSIVE DecNat(_)
DecNat(n) == IF n < 10 THEN <<DigitSeq[n + 1]>> ELSE DecNat(n \div 10) \o <<DigitSeq[(n % 10) + 1]>>
String(n) == IF n < 0 THEN <<"-">> \o DecNat(0 - n) ELSE DecNat(n)

\* All sequences over S of length at most n.
SeqUpTo(S, n) == UNION {[1..k -> S] : k \in 0..n}

\* The characters outside ASCII that the source names, each one character of the text:
\* green square, red square, bullet, black square, black circle, and the left and
\* right single quotation marks.
GRN == "GRN"
RED == "RED"
BUL == "BUL"
SQR == "SQR"
DOT == "DOT"
LQ == "LQ"
RQ == "RQ"

\* A pattern is a sequence of pieces: a literal (flag i), \s*, or an optional literal.
Lit(w) == [k |-> "lit", w |-> w]
Ws == [k |-> "ws", w |-> <<>>]
Opt(w) == [k |-> "opt", w |-> w]

\* The pattern toks matches s from position i on.
RECURSIVE PatAt(_, _, _)
PatAt(s, i, toks) ==
  IF toks = <<>> THEN TRUE
  ELSE CASE Head(toks).k = "lit" ->
              AtCI(s, i, Head(toks).w) /\ PatAt(s, i + Len(Head(toks).w), Tail(toks))
         [] Head(toks).k = "ws" ->
              \E j \in i..SkipSpace(s, i) : PatAt(s, j, Tail(toks))
         [] Head(toks).k = "opt" ->
              \/ AtCI(s, i, Head(toks).w) /\ PatAt(s, i + Len(Head(toks).w), Tail(toks))
              \/ PatAt(s, i, Tail(toks))
\* /toks/i.test(s)
PatAnywhere(s, toks) == \E i \in 1..Len(s) : PatAt(s, i, toks)

-----------------------------------------------------------------------------
(* Identifier codec                                                        *)

PLACEHOLDERS == <<252, 253, 260, 261, 262, 263, 265, 266>>

\* an idToCode whose F range counts from 251
idToCode_Off(id) ==
  IF id >= 251 /\ id <= 259 THEN <<"F">> \o String(id - 251)
  ELSE IF id >= 260 /\ id <= 269 THEN <<"S">> \o String(id - 260)
  ELSE String(id)

idToCode(id) ==
  IF id >= 251 /\ id <= 259 THEN <<"F">> \o String(id - 250)
  ELSE IF id >= 260 /\ id <= 269 THEN <<"S">> \o String(id - 260)
  ELSE String(id)

\* ids tried: a window around the two ranges, and a few far away from them
IdLow == 230
IdSpan == 60
IdSet == (IdLow .. IdLow + IdSpan) \cup {0 - 7, 0, 5, 2500}

\* the locals of the parsers, before any of them runs
IdleScratch ==
  /\ lines = <<>>
  /\ idx = 0
  /\ current = Null
  /\ entries = <<>>
  /\ blocks = <<>>
  /\ byCode = <<>>
  /\ section = "null"
  /\ currentCode = Null
  /\ out = <<>>
\* no component is mounted
IdleEditor ==
  /\ selectedDate = Null
  /\ reportTitle = Null
  /\ raw = Null
  /\ hotoRaw = Null
  /\ hotoTicks = <<>>
  /\ hotoDone = <<>>
IdleCloud ==
  /\ user = Null
  /\ followLatest = FALSE
  /\ cloudDates = <<>>
  /\ docUnsubRef = Null
  /\ db = <<>>
  /\ listeners = {}
  /\ snapshots = {}
  /\ requests = {}
IdleLocal ==
  /\ reports = <<>>
  /\ storage = <<>>
  /\ readers = {}
IdleLocals ==
  /\ IdleScratch
  /\ IdleEditor
  /\ IdleCloud
  /\ IdleLocal

InitCodec ==
  /\ op = "idToCode"
  /\ pc = "call"
  /\ arg \in IdSet
  /\ ret = <<>>
  /\ IdleLocals

IdToCode ==
  /\ op = "idToCode"
  /\ pc = "call"
  /\ ret' = idToCode(arg)
  /\ pc' = "done"
  /\ UNCHANGED <<op, arg>>
  /\ UNCHANGED locals

-----------------------------------------------------------------------------
(* Status classifier                                                       *)

W_defect == <<"d","e","f","e","c","t",":">>
W_rect == <<"r","e","c","t",":">>
W_gr == <<"g","r">>
W_majorserv == <<"m","a","j","o","r"," ","s","e","r","v">>
W_phase == <<"p","h","a","s","e">>
W_postphasercv == <<"p","o","s","t"," ","p","h","a","s","e"," ","r","c","v">>
W_recovery == <<"r","e","c","o","v","e","r","y">>

\* /\bdefect:/
ReDefect(s) == \E i \in 1..Len(s) : Boundary(s, i) /\ At(s, i, W_defect)
\* /\brect:/
ReRect(s) == \E i \in 1..Len(s) : Boundary(s, i) /\ At(s, i, W_rect)
\* /\bgr\b/
ReGr(s) == \E i \in 1..Len(s) : Boundary(s, i) /\ At(s, i, W_gr) /\ Boundary(s, i + 2)
\* /(major serv|phase\b)/
RePhase(s) ==
  \E i \in 1..Len(s) : At(s, i, W_majorserv) \/ (At(s, i, W_phase) /\ Boundary(s, i + 5))
\* /(post phase rcv|recovery)/
ReRecovery(s) == Contains(s, W_postphasercv) \/ Contains(s, W_recovery)
\* /\s-\s*s(\b|$)/i
ReDashS(s) ==
  \E i \in 1..Len(s) :
    /\ IsSpace(s[i])
    /\ At(s, i + 1, <<"-">>)
    /\ \E j \in (i + 2)..SkipSpace(s, i + 2) :
         j <= Len(s) /\ LowerCh(s[j]) = "s" /\ (Boundary(s, j + 1) \/ j = Len(s))

entryTitle(entry) == toLowerCase(entry.title)
entryNotes(entry) == toLowerCase(join(entry.notes, <<" ">>))

hasDefect(entry) ==
  \/ ReDefect(entryTitle(entry))
  \/ ReDefect(entryNotes(entry))
  \/ ReRect(entryTitle(entry))
  \/ ReRect(entryNotes(entry))
  \/ ReGr(entryTitle(entry))
  \/ ReGr(entryNotes(entry))

\* the copy in App.jsx
hasDefectApp(entry) ==
  \/ ReDefect(entryTitle(entry))
  \/ ReDefect(entryNotes(entry))
  \/ ReGr(entryTitle(entry))
  \/ ReGr(entryNotes(entry))

\* an inPhase that reads the notes too
inPhase_Notes(entry) == RePhase(entryTitle(entry)) \/ RePhase(entryNotes(entry))

\* const inPhase = /(major serv|phase\b)/.test(title)
inPhase(entry) == RePhase(entryTitle(entry))

recovery(entry) == ReRecovery(entryTitle(entry)) \/ ReRecovery(entryNotes(entry))

\* a deriveStatusTag that tests the in-phase signal before the defect signal
deriveStatusTag_PhaseFirst(entry) ==
  IF inPhase(entry) THEN "in-phase"
  ELSE IF hasDefect(entry) THEN "rectification"
  ELSE IF recovery(entry) THEN "recovery"
  ELSE "serviceable"

deriveStatusTag(entry) ==
  IF hasDefect(entry) THEN "rectification"
  ELSE IF inPhase(entry) THEN "in-phase"
  ELSE IF recovery(entry) THEN "recovery"
  ELSE IF ReDashS(entry.title) THEN "serviceable"
  ELSE "serviceable"

\* the copy in App.jsx
deriveStatusTagApp(entry) ==
  IF hasDefectApp(entry) THEN "rectification"
  ELSE IF inPhase(entry) THEN "in-phase"
  ELSE IF recovery(entry) THEN "recovery"
  ELSE IF ReDashS(entry.title) THEN "serviceable"
  ELSE "serviceable"

TitleSet ==
  { <<"S","2"," ","-"," ","G","R">>,
    <<"S","2"," ","-"," ","D","e","f","e","c","t",":"," ","x"," ","P","h","a","s","e">>,
    <<"S","0"," ","-"," ","M","a","j","o","r"," ","S","e","r","v">>,
    <<"F","2"," ","-"," ","P","h","a","s","e">>,
    <<"F","2"," ","-"," ","S">>,
    <<"F","3"," ","-"," ","P","o","s","t"," ","P","h","a","s","e"," ","R","c","v">>,
    <<"F","3"," ","-"," ","R","e","c","o","v","e","r","y">>,
    <<"S","1"," ","-"," ","R","e","c","t",":"," ","p","u","m","p">>,
    <<"S","1"," ","-"," ","p","h","a","s","e","d"," ","g","r","i","d">>,
    <<"S","1"," ","-"," ","D","i","r","e","c","t",":"," ","a">> }

NoteSet ==
  { <<"R","e","c","t",":"," ","d","o","n","e">>,
    <<"p","h","a","s","e"," ","2">>,
    <<"r","e","c","o","v","e","r","y">>,
    <<"G","R">>,
    <<"o","k">>,
    <<"D","e","f","e","c","t",":"," ","l","e","a","k">> }

MaxNotes == 2

InitStatus ==
  /\ op \in {"deriveStatusTag", "deriveStatusTagApp"}
  /\ pc = "call"
  /\ arg \in [title : TitleSet, notes : SeqUpTo(NoteSet, MaxNotes)]
  /\ ret = <<>>
  /\ IdleLocals

DeriveStatusTag ==
  /\ op = "deriveStatusTag"
  /\ pc = "call"
  /\ ret' = deriveStatusTag(arg)
  /\ pc' = "done"
  /\ UNCHANGED <<op, arg>>
  /\ UNCHANGED locals

DeriveStatusTagApp ==
  /\ op = "deriveStatusTagApp"
  /\ pc = "call"
  /\ ret' = deriveStatusTagApp(arg)
  /\ pc' = "done"
  /\ UNCHANGED <<op, arg>>
  /\ UNCHANGED locals

-----------------------------------------------------------------------------
(* Report parser                                                           *)

\* text.replace(/\r/g, "")
removeCR(s) == SelectSeq(s, LAMBDA c : c # "\r")

\* text.split("\n")
RECURSIVE splitNL(_)
splitNL(s) ==
  IF \A i \in 1..Len(s) : s[i] # "\n" THEN <<s>>
  ELSE LET k == CHOOSE i \in 1..Len(s) : s[i] = "\n" /\ \A j \in 1..(i - 1) : s[j] # "\n"
       IN  <<SubSeq(s, 1, k - 1)>> \o splitNL(SubSeq(s, k + 1, Len(s)))

\* [>*\s-]
IsMarker(c) == c \in {">", "*", "-"} \/ IsSpace(c)
RECURSIVE SkipMarkers(_, _)
SkipMarkers(s, i) == IF i <= Len(s) /\ IsMarker(s[i]) THEN SkipMarkers(s, i + 1) ELSE i
RECURSIVE SkipDashes(_, _)
SkipDashes(s, i) == IF i <= Len(s) /\ s[i] = "-" THEN SkipDashes(s, i + 1) ELSE i

\* [SF]\d at position p, flag i
IsCodeAt(s, p) == p >= 1 /\ p + 1 <= Len(s) /\ UpperCh(s[p]) \in {"S", "F"} /\ IsDigit(s[p + 1])

\* header = /^[>*\s-]*\*?\s*([SF]\d)\s*-\s*(.+)$/i : the code is the first thing after
\* the run of markers, then white space, a dash and at least one more character.
headerDash(line) == SkipSpace(line, SkipMarkers(line, 1) + 2)
headerMatches(line) ==
  /\ IsCodeAt(line, SkipMarkers(line, 1))
  /\ headerDash(line) < Len(line)
  /\ line[headerDash(line)] = "-"
\* h[1].toUpperCase()
headerCode(line) == toUpperCase(SubSeq(line, SkipMarkers(line, 1), SkipMarkers(line, 1) + 1))
\* h[2].trim()
headerTail(line) == trim(SubSeq(line, headerDash(line) + 1, Len(line)))

W_Input == <<"I","n","p","u","t",":">>
W_ETR == <<"E","T","R",":">>
W_Requirements == <<"R","e","q","u","i","r","e","m","e","n","t","s">>

\* /^Input:\s*(.+)$/i and mInput[1].trim()
inputMatches(line) == AtCI(line, 1, W_Input) /\ Len(line) > Len(W_Input)
inputValue(line) == trim(SubSeq(line, Len(W_Input) + 1, Len(line)))
\* /^ETR:\s*(.+)$/i and mEtr[1].trim()
etrMatches(line) == AtCI(line, 1, W_ETR) /\ Len(line) > Len(W_ETR)
etrValue(line) == trim(SubSeq(line, Len(W_ETR) + 1, Len(line)))
\* line.replace(/^>\s*/, "")
stripGt(line) == SubSeq(line, SkipSpace(line, 2), Len(line))
\* line.replace(/^-+\s*/, "")
stripDash(line) == SubSeq(line, SkipSpace(line, SkipDashes(line, 1)), Len(line))
\* /^Requirements$/i
requirementsMatches(line) == toLowerCase(line) = toLowerCase(W_Requirements)

\* a reportLineKind that treats a line of no known kind as a "-" note
reportLineKind_KeepUnknown(line, cur) ==
  IF line = <<>> THEN "empty"
  ELSE IF headerMatches(line) THEN "header"
  ELSE IF cur = Null THEN "skip"
  ELSE IF inputMatches(line) THEN "input"
  ELSE IF etrMatches(line) THEN "etr"
  ELSE IF line[1] = ">" THEN "gt"
  ELSE IF line[1] = "-" THEN "dash"
  ELSE IF requirementsMatches(line) THEN "requirements"
  ELSE "dash"

\* a reportLineKind that tests the note markers before the header
reportLineKind_NotesFirst(line, cur) ==
  IF line = <<>> THEN "empty"
  ELSE IF cur # Null /\ line[1] = ">" THEN "gt"
  ELSE IF cur # Null /\ line[1] = "-" THEN "dash"
  ELSE IF headerMatches(line) THEN "header"
  ELSE IF cur = Null THEN "skip"
  ELSE IF inputMatches(line) THEN "input"
  ELSE IF etrMatches(line) THEN "etr"
  ELSE IF requirementsMatches(line) THEN "requirements"
  ELSE "drop"

\* the branch of the loop body that a line takes, in the order the source tests them
reportLineKind(line, cur) ==
  IF line = <<>> THEN "empty"
  ELSE IF headerMatches(line) THEN "header"
  ELSE IF cur = Null THEN "skip"
  ELSE IF inputMatches(line) THEN "input"
  ELSE IF etrMatches(line) THEN "etr"
  ELSE IF line[1] = ">" THEN "gt"
  ELSE IF line[1] = "-" THEN "dash"
  ELSE IF requirementsMatches(line) THEN "requirements"
  ELSE "drop"

\* an openEntry that keeps the fields of an entry that exists already
openEntry_Merge(ents, code, tail) ==
  IF code \in DOMAIN ents
  THEN [ents EXCEPT ![code].title = code \o <<" ", "-", " ">> \o tail]
  ELSE (code :> [code |-> code, title |-> code \o <<" ", "-", " ">> \o tail,
                 input |-> <<>>, etr |-> <<>>, notes |-> <<>>]) @@ ents

\* entries[code] = { code, title, input: "", etr: "", notes: [] }
openEntry(ents, code, tail) ==
  (code :> [code |-> code, title |-> code \o <<" ", "-", " ">> \o tail,
            input |-> <<>>, etr |-> <<>>, notes |-> <<>>]) @@ ents

\* a setInput that keeps the first value
setInput_KeepFirst(ents, cur, v) ==
  IF ents[cur].input = <<>> THEN [ents EXCEPT ![cur].input = v] ELSE ents

\* entries[current].input = v
setInput(ents, cur, v) == [ents EXCEPT ![cur].input = v]

\* entries[current].etr = v
setEtr(ents, cur, v) == [ents EXCEPT ![cur].etr = v]

\* a pushNote that pushes to every entry
pushNote_All(ents, cur, v) ==
  [c \in DOMAIN ents |-> [ents[c] EXCEPT !.notes = Append(@, v)]]

\* entries[current].notes.push(v)
pushNote(ents, cur, v) == [ents EXCEPT ![cur].notes = Append(@, v)]

\* one iteration of the loop over the lines: the entries and the current code after it
reportStep(ents, cur, line) ==
  LET kind == reportLineKind(line, cur)
  IN  CASE kind = "header" ->
             [entries |-> openEntry(ents, headerCode(line), headerTail(line)),
              current |-> headerCode(line)]
        [] kind = "input" -> [entries |-> setInput(ents, cur, inputValue(line)), current |-> cur]
        [] kind = "etr" -> [entries |-> setEtr(ents, cur, etrValue(line)), current |-> cur]
        [] kind = "gt" -> [entries |-> pushNote(ents, cur, stripGt(line)), current |-> cur]
        [] kind = "dash" -> [entries |-> pushNote(ents, cur, stripDash(line)), current |-> cur]
        [] kind = "requirements" ->
             [entries |-> pushNote(ents, cur, W_Requirements \o <<":">>), current |-> cur]
        [] OTHER -> [entries |-> ents, current |-> cur]

\* entries[k].tag = deriveStatusTag(entries[k]) for every key
attachTags(ents) ==
  [k \in DOMAIN ents |->
     [code |-> ents[k].code, title |-> ents[k].title, input |-> ents[k].input,
      etr |-> ents[k].etr, notes |-> ents[k].notes, tag |-> deriveStatusTag(ents[k])]]

\* the loop of parseReport run over the lines ls alone
RECURSIVE reportLoop(_, _, _, _)
reportLoop(ents, cur, ls, i) ==
  IF i > Len(ls) THEN ents
  ELSE reportLoop(reportStep(ents, cur, ls[i]).entries, reportStep(ents, cur, ls[i]).current,
                  ls, i + 1)

\* parseReport(text)
parseReport(text) ==
  LET ls == splitNL(removeCR(text))
  IN  attachTags(reportLoop(<<>>, Null, [i \in 1..Len(ls) |-> trim(ls[i])], 1))

ReportLineSet ==
  { <<"S","2"," ","-"," ","G","R">>,
    <<"*","s","2"," ","-"," ","S">>,
    <<">"," ","F","3"," ","-"," "," ","P","h","a","s","e","\r">>,
    <<"I","n","p","u","t",":"," ","0","8","0","8">>,
    <<"i","n","p","u","t",":","0","9","0","9">>,
    <<" ","E","T","R",":"," ","1","2","0","0","\r">>,
    <<"E","T","R",":"," ","1","3","0","0">>,
    <<"-"," ","D","e","f","e","c","t",":"," ","l","e","a","k">>,
    <<">"," ","s","u","b">>,
    <<"r","e","q","u","i","r","e","m","e","n","t","s">>,
    <<"n","o","i","s","e">>,
    <<>> }

MaxReportLines == 3

InitReport ==
  /\ op = "parseReport"
  /\ pc = "call"
  /\ arg \in {join(ls, <<"\n">>) : ls \in SeqUpTo(ReportLineSet, MaxReportLines)}
  /\ ret = <<>>
  /\ IdleLocals

\* const lines = text.replace(/\r/g, "").split("\n").map((l) => l.trim())
ReportSplit ==
  /\ op = "parseReport"
  /\ pc = "call"
  /\ lines' = [i \in 1..Len(splitNL(removeCR(arg))) |-> trim(splitNL(removeCR(arg))[i])]
  /\ idx' = 1
  /\ entries' = <<>>
  /\ current' = Null
  /\ pc' = "loop"
  /\ UNCHANGED <<op, arg, ret>>
  /\ UNCHANGED notReport

\* the loop is at a line that takes the branch `kind`
ReportAt(kind) ==
  /\ op = "parseReport"
  /\ pc = "loop"
  /\ idx <= Len(lines)
  /\ reportLineKind(lines[idx], current) = kind

\* the loop body runs on lines[idx]
ReportBody ==
  /\ entries' = reportStep(entries, current, lines[idx]).entries
  /\ current' = reportStep(entries, current, lines[idx]).current
  /\ idx' = idx + 1
  /\ UNCHANGED <<op, pc, arg, ret, lines>>
  /\ UNCHANGED notReport

\* if (!line) continue
ReportEmpty ==
  /\ ReportAt("empty")
  /\ ReportBody
\* if (h) { entries[code] = {...}; current = code; continue }
ReportHeader ==
  /\ ReportAt("header")
  /\ ReportBody
\* if (!current) continue
ReportSkip ==
  /\ ReportAt("skip")
  /\ ReportBody
\* if (mInput) { entries[current].input = ...; continue }
ReportInput ==
  /\ ReportAt("input")
  /\ ReportBody
\* if (mEtr) { entries[current].etr = ...; continue }
ReportEtr ==
  /\ ReportAt("etr")
  /\ ReportBody
\* if (/^>/.test(line)) { entries[current].notes.push(...); continue }
ReportNoteGt ==
  /\ ReportAt("gt")
  /\ ReportBody
\* if (/^-/.test(line)) { entries[current].notes.push(...); continue }
ReportNoteDash ==
  /\ ReportAt("dash")
  /\ ReportBody
\* if (/^Requirements$/i.test(line)) { entries[current].notes.push("Requirements:"); continue }
ReportRequirements ==
  /\ ReportAt("requirements")
  /\ ReportBody
\* a line that matches nothing: the loop goes on
ReportDrop ==
  /\ ReportAt("drop")
  /\ ReportBody

\* Object.keys(entries).forEach(...); return entries
ReportAttachTags ==
  /\ op = "parseReport"
  /\ pc = "loop"
  /\ idx > Len(lines)
  /\ entries' = attachTags(entries)
  /\ ret' = attachTags(entries)
  /\ pc' = "done"
  /\ UNCHANGED <<op, arg, lines, idx, current>>
  /\ UNCHANGED notReport

NextReport ==
  \/ ReportSplit
  \/ ReportEmpty
  \/ ReportHeader
  \/ ReportSkip
  \/ ReportInput
  \/ ReportEtr
  \/ ReportNoteGt
  \/ ReportNoteDash
  \/ ReportRequirements
  \/ ReportDrop
  \/ ReportAttachTags
SpecReport == InitReport /\ [][NextReport]_vars

-----------------------------------------------------------------------------
(* Defect-message parser                                                   *)

\* Index of the first character at or after i that is not a line feed.
RECURSIVE SkipNL(_, _)
SkipNL(s, i) == IF i <= Len(s) /\ s[i] = "\n" THEN SkipNL(s, i + 1) ELSE i

\* Index of the first character at or after i that is not white space other than a
\* line feed.
RECURSIVE SkipHSpace(_, _)
SkipHSpace(s, i) ==
  IF i <= Len(s) /\ IsSpace(s[i]) /\ s[i] # "\n" THEN SkipHSpace(s, i + 1) ELSE i

\* text.split(/\n{2,}/)
RECURSIVE splitBlank(_)
splitBlank(s) ==
  IF \A i \in 1..(Len(s) - 1) : ~(s[i] = "\n" /\ s[i + 1] = "\n") THEN <<s>>
  ELSE LET k == CHOOSE i \in 1..(Len(s) - 1) :
                  /\ s[i] = "\n" /\ s[i + 1] = "\n"
                  /\ \A j \in 1..(i - 1) : ~(s[j] = "\n" /\ s[j + 1] = "\n")
       IN  <<SubSeq(s, 1, k - 1)>> \o splitBlank(SubSeq(s, SkipNL(s, k), Len(s)))

\* .map((b) => b.trim()).filter(Boolean)
trimAll(ss) == [i \in 1..Len(ss) |-> trim(ss[i])]
nonEmpty(ss) == SelectSeq(ss, LAMBDA b : b # <<>>)

\* /^\s*([FS]\d)\s*$/im matches with the code at position q: with the flag m, ^ is the
\* start of any line of the block and $ the end of any line.
codeLineAt(b, q) ==
  /\ IsCodeAt(b, q)
  /\ \/ SkipSpaceBack(b, q - 1) = 0
     \/ \E p \in (SkipSpaceBack(b, q - 1) + 1)..(q - 1) : b[p] = "\n"
  /\ \/ SkipHSpace(b, q + 2) > Len(b)
     \/ b[SkipHSpace(b, q + 2)] = "\n"

\* b.match(/^\s*([FS]\d)\s*$/im): position of the code of the first match, 0 for null
codeLine(b) ==
  IF \E q \in 1..Len(b) : codeLineAt(b, q)
  THEN CHOOSE q \in 1..Len(b) : codeLineAt(b, q) /\ \A r \in 1..(q - 1) : ~codeLineAt(b, r)
  ELSE 0

\* codeLine[1].toUpperCase()
codeLineCode(b) == toUpperCase(SubSeq(b, codeLine(b), codeLine(b) + 1))

\* const pushCurrent = () => { if (current && current.code) byCode[current.code] = current; }
pushCurrent(by, cur) ==
  IF cur # Null /\ cur[1].code # <<>> THEN (cur[1].code :> cur[1]) @@ by ELSE by

W_DateTime == <<"D","a","t","e","/","T","i","m","e">>
W_US == <<"U","/","S">>
W_Workcenter == <<"W","o","r","k","c","e","n","t","e","r",":">>
W_PrimeTrade == <<"P","r","i","m","e"," ","T","r","a","d","e",":">>
W_System == <<"S","y","s","t","e","m",":">>
W_post == <<"p","o","s","t">>
W_rcv == <<"r","c","v">>
W_Grun == <<"r","u","n"," ","r","e","q","u","i","r","e","m","e","n","t",":">>
W_FCF == <<"F","C","F"," ","r","e","q","u","i","r","e","m","e","n","t",":">>

\* the least element of a set of positions
firstIn(P) == CHOOSE e \in P : \A f \in P : e <= f

\* the last position of the run of characters other than "\n" that holds position p
RECURSIVE LineEnd(_, _)
LineEnd(s, p) == IF p + 1 <= Len(s) /\ s[p + 1] # "\n" THEN LineEnd(s, p + 1) ELSE p

\* \s*([^\n]+) matched from position k: <<the capture>>, or <<>> when it does not match.
\* When only white space follows, \s* gives characters back until one is not "\n".
restOfLine(s, k) ==
  LET p == SkipSpace(s, k)
      Q == {q \in k..Len(s) : s[q] # "\n"}
  IN  IF p <= Len(s) THEN <<SubSeq(s, p, LineEnd(s, p))>>
      ELSE IF Q # {} THEN <<<<s[CHOOSE q \in Q : \A r \in Q : r <= q]>>>>
      ELSE <<>>

\* /w\s*([^\n]+)/i, with \b in front when wb, matches at position i
fieldAt(s, i, w, wb) ==
  /\ wb => Boundary(s, i)
  /\ AtCI(s, i, w)
  /\ restOfLine(s, i + Len(w)) # <<>>

\* get(/w\s*([^\n]+)/i): (all.match(re)?.[1] || "").trim()
getLine(s, w, wb) ==
  LET I == {i \in 1..Len(s) : fieldAt(s, i, w, wb)}
  IN  IF I = {} THEN <<>> ELSE trim(restOfLine(s, firstIn(I) + Len(w))[1])

\* Date\/Time\s*[‘'"]?U\/S[’'"]?\s*: matched at position i: the position after the
\* colon, 0 when it does not match
usColon(s, i) ==
  LET a == SkipSpace(s, i + Len(W_DateTime))
      b == IF a <= Len(s) /\ s[a] \in {LQ, "'", "\""} THEN a + 1 ELSE a
      c == b + Len(W_US)
      d == IF c <= Len(s) /\ s[c] \in {RQ, "'", "\""} THEN c + 1 ELSE c
      e == SkipSpace(s, d)
  IN  IF AtCI(s, i, W_DateTime) /\ AtCI(s, b, W_US) /\ e <= Len(s) /\ s[e] = ":"
      THEN e + 1 ELSE 0

usAt(s, i) == usColon(s, i) # 0 /\ restOfLine(s, usColon(s, i)) # <<>>

\* rec.us = get(/Date\/Time\s*[‘'"]?U\/S[’'"]?\s*:\s*([^\n]+)/i)
getUs(s) ==
  LET I == {i \in 1..Len(s) : usAt(s, i)}
  IN  IF I = {} THEN <<>> ELSE trim(restOfLine(s, usColon(s, firstIn(I)))[1])

\* the number of consecutive letters of s from position j on
RECURSIVE AlphaRun(_, _)
AlphaRun(s, j) ==
  IF j >= 1 /\ j <= Len(s) /\ IsAlpha(s[j]) THEN 1 + AlphaRun(s, j + 1) ELSE 0

\* [A-Z][a-z]+: matches at position j (flag i: every letter is in both classes)
labelAt(s, j) ==
  /\ AlphaRun(s, j) >= 2
  /\ j + AlphaRun(s, j) <= Len(s)
  /\ s[j + AlphaRun(s, j)] = ":"

\* (?:\n{1,2}[A-Z][a-z]+:|\n{2,}|$) matches at position e
defectStop(s, e) ==
  \/ e > Len(s)
  \/ /\ s[e] = "\n"
     /\ \/ labelAt(s, e + 1)
        \/ e + 1 <= Len(s) /\ s[e + 1] = "\n"

\* rec.defect = get(/\bDefect:\s*([\s\S]*?)(?:\n{1,2}[A-Z][a-z]+:|\n{2,}|$)/i)
getDefect(s) ==
  LET I == {i \in 1..Len(s) : Boundary(s, i) /\ AtCI(s, i, W_defect)}
  IN  IF I = {} THEN <<>>
      ELSE LET p == SkipSpace(s, firstIn(I) + Len(W_defect))
               e == firstIn({e \in p..(Len(s) + 1) : defectStop(s, e)})
           IN  trim(SubSeq(s, p, e - 1))

\* /(^|\n)\s*Recovery\s*$/i.test(all): without the flag m, $ is the end of the text
recoveryLine(s) ==
  \E i \in 1..Len(s) :
    /\ AtCI(s, i, W_recovery)
    /\ SkipSpace(s, i + Len(W_recovery)) > Len(s)
    /\ \/ SkipSpaceBack(s, i - 1) = 0
       \/ \E q \in (SkipSpaceBack(s, i - 1) + 1)..(i - 1) : s[q] = "\n"

\* /post\s*phase\s*rcv/i.test(all)
postPhaseRcv(s) == PatAnywhere(s, <<Lit(W_post), Ws, Lit(W_phase), Ws, Lit(W_rcv)>>)

\* G\/?run requirement: matched at position i: the position after it, 0 when it does
\* not match
grunEnd(s, i) ==
  IF AtCI(s, i, <<"G", "/">> \o W_Grun) THEN i + 2 + Len(W_Grun)
  ELSE IF AtCI(s, i, <<"G">> \o W_Grun) THEN i + 1 + Len(W_Grun)
  ELSE 0

\* (?:\n{2,}|FCF requirement:|Workcenter:|$) matches at position e
grStop(s, e) ==
  \/ e > Len(s)
  \/ s[e] = "\n" /\ e + 1 <= Len(s) /\ s[e + 1] = "\n"
  \/ AtCI(s, e, W_FCF)
  \/ AtCI(s, e, W_Workcenter)

\* (?:\n{2,}|G\/?run requirement:|Workcenter:|$) matches at position e
fcfStop(s, e) ==
  \/ e > Len(s)
  \/ s[e] = "\n" /\ e + 1 <= Len(s) /\ s[e + 1] = "\n"
  \/ grunEnd(s, e) # 0
  \/ AtCI(s, e, W_Workcenter)

\* l.replace(/^\s*[-•]\s*/, "").trim()
stripItem(l) ==
  LET p == SkipSpace(l, 1)
  IN  IF p <= Len(l) /\ l[p] \in {"-", BUL}
      THEN trim(SubSeq(l, SkipSpace(l, p + 1), Len(l)))
      ELSE trim(l)

\* an itemsOf without the filter
itemsOf_KeepEmpty(capture) ==
  LET ls == splitNL(capture)
  IN  [k \in 1..Len(ls) |-> stripItem(ls[k])]

\* capture.split("\n").map(stripItem).filter(Boolean)
itemsOf(capture) ==
  LET ls == splitNL(capture)
  IN  nonEmpty([k \in 1..Len(ls) |-> stripItem(ls[k])])

\* rec.gr: the items of the first match of the G/run pattern, [] when there is none
getGr(s) ==
  LET I == {i \in 1..Len(s) : grunEnd(s, i) # 0}
  IN  IF I = {} THEN <<>>
      ELSE LET p == SkipSpace(s, grunEnd(s, firstIn(I)))
               e == firstIn({e \in p..(Len(s) + 1) : grStop(s, e)})
           IN  itemsOf(SubSeq(s, p, e - 1))

\* rec.fcf: the items of the first match of the FCF pattern, [] when there is none
getFcf(s) ==
  LET I == {i \in 1..Len(s) : AtCI(s, i, W_FCF)}
  IN  IF I = {} THEN <<>>
      ELSE LET p == SkipSpace(s, firstIn(I) + Len(W_FCF))
               e == firstIn({e \in p..(Len(s) + 1) : fcfStop(s, e)})
           IN  itemsOf(SubSeq(s, p, e - 1))

\* const all = rec.lines.join("\n\n")
allOf(rec) == join(rec.lines, <<"\n", "\n">>)

\* the body of Object.values(byCode).forEach((rec) => { ... }): rec with its fields set
extractFields(rec) ==
  [code |-> rec.code,
   lines |-> rec.lines,
   us |-> getUs(allOf(rec)),
   defect |-> getDefect(allOf(rec)),
   rect |-> getLine(allOf(rec), W_rect, TRUE),
   etr |-> getLine(allOf(rec), W_ETR, TRUE),
   recovery |-> recoveryLine(allOf(rec)) \/ postPhaseRcv(allOf(rec)),
   gr |-> getGr(allOf(rec)),
   fcf |-> getFcf(allOf(rec)),
   workcenter |-> getLine(allOf(rec), W_Workcenter, FALSE),
   prime |-> getLine(allOf(rec), W_PrimeTrade, FALSE),
   system |-> getLine(allOf(rec), W_System, FALSE)]

\* byCode after the forEach
extractAll(by) == [c \in DOMAIN by |-> extractFields(by[c])]

\* the loop over the blocks and the pushCurrent() after it
RECURSIVE tgLoop(_, _, _, _)
tgLoop(bs, i, by, cur) ==
  IF i > Len(bs) THEN pushCurrent(by, cur)
  ELSE IF codeLine(bs[i]) # 0
       THEN tgLoop(bs, i + 1, pushCurrent(by, cur),
                   <<[code |-> codeLineCode(bs[i]), lines |-> <<bs[i]>>]>>)
  ELSE IF cur = Null THEN tgLoop(bs, i + 1, by, cur)
  ELSE tgLoop(bs, i + 1, by, <<[cur[1] EXCEPT !.lines = Append(@, bs[i])]>>)

\* parseTelegramDefects(text)
parseTelegramDefects(text) ==
  extractAll(tgLoop(nonEmpty(trimAll(splitBlank(removeCR(text)))), 1, <<>>, Null))

TgLineSet ==
  { <<"S","3">>,
    <<" ","f","2">>,
    <<"D","e","f","e","c","t",":"," ","a","b","c">>,
    <<"E","T","R",":"," ","1","2","0","0">>,
    <<"S","3"," ","x">>,
    <<>> }

MaxTgLines == 4

\* texts made of whole blocks, some of several lines
TgBlockSet ==
  { <<"S","3">>,
    <<"f","2">>,
    <<"D","e","f","e","c","t",":"," ","a","b","c","\n","R","e","c","t",":"," ","f","i","x">>,
    <<"E","T","R",":"," ","1","2","0","0">>,
    <<"R","e","c","o","v","e","r","y">>,
    <<"p","o","s","t"," ","p","h","a","s","e"," "," ","r","c","v">>,
    <<"G","/","r","u","n"," ","r","e","q","u","i","r","e","m","e","n","t",":","\n",
      "-"," ","a","\n","BUL"," ","b","\n",
      "F","C","F"," ","r","e","q","u","i","r","e","m","e","n","t",":"," ","c","\n","-">>,
    <<"D","a","t","e","/","T","i","m","e"," ","'","U","/","S","'",":"," ","1"," ","J","a","n","\n",
      "W","o","r","k","c","e","n","t","e","r",":"," ","W","1","\n",
      "P","r","i","m","e"," ","T","r","a","d","e",":"," ","A","V","\n",
      "S","y","s","t","e","m",":"," ","H","y","d">> }

MaxTgBlocks == 4

InitTelegram ==
  /\ op = "parseTelegramDefects"
  /\ pc = "call"
  /\ arg \in {join(ls, <<"\n">>) : ls \in SeqUpTo(TgLineSet, MaxTgLines)}
            \cup {join(bs, <<"\n", "\n">>) : bs \in SeqUpTo(TgBlockSet, MaxTgBlocks)}
  /\ ret = <<>>
  /\ IdleLocals

\* const blocks = text.replace(/\r/g, "").split(/\n{2,}/).map((b) => b.trim()).filter(Boolean)
TgSplit ==
  /\ op = "parseTelegramDefects"
  /\ pc = "call"
  /\ blocks' = nonEmpty(trimAll(splitBlank(removeCR(arg))))
  /\ idx' = 1
  /\ byCode' = <<>>
  /\ current' = Null
  /\ pc' = "loop"
  /\ UNCHANGED <<op, arg, ret>>
  /\ UNCHANGED notTelegram

TgAt ==
  /\ op = "parseTelegramDefects"
  /\ pc = "loop"
  /\ idx <= Len(blocks)

\* if (codeLine) { pushCurrent(); current = { code, lines: [] }; } ... current.lines.push(b)
TgBlockCode ==
  /\ TgAt
  /\ codeLine(blocks[idx]) # 0
  /\ byCode' = pushCurrent(byCode, current)
  /\ current' = <<[code |-> codeLineCode(blocks[idx]), lines |-> <<blocks[idx]>>]>>
  /\ idx' = idx + 1
  /\ UNCHANGED <<op, pc, arg, ret, blocks>>
  /\ UNCHANGED notTelegram

\* if (!current) continue
TgBlockSkip ==
  /\ TgAt
  /\ codeLine(blocks[idx]) = 0
  /\ current = Null
  /\ idx' = idx + 1
  /\ UNCHANGED <<op, pc, arg, ret, blocks, byCode, current>>
  /\ UNCHANGED notTelegram

\* current.lines.push(b)
TgBlockAppend ==
  /\ TgAt
  /\ codeLine(blocks[idx]) = 0
  /\ current # Null
  /\ current' = <<[current[1] EXCEPT !.lines = Append(@, blocks[idx])]>>
  /\ idx' = idx + 1
  /\ UNCHANGED <<op, pc, arg, ret, blocks, byCode>>
  /\ UNCHANGED notTelegram

\* pushCurrent() after the loop; the field extraction on every record of byCode (the
\* open accumulator is one of them); return byCode
TgReturn ==
  /\ op = "parseTelegramDefects"
  /\ pc = "loop"
  /\ idx > Len(blocks)
  /\ byCode' = extractAll(pushCurrent(byCode, current))
  /\ ret' = extractAll(pushCurrent(byCode, current))
  /\ current' = IF current = Null THEN Null ELSE <<extractFields(current[1])>>
  /\ pc' = "done"
  /\ UNCHANGED <<op, arg, blocks, idx>>
  /\ UNCHANGED notTelegram

NextTelegram ==
  \/ TgSplit
  \/ TgBlockCode
  \/ TgBlockSkip
  \/ TgBlockAppend
  \/ TgReturn
SpecTelegram == InitTelegram /\ [][NextTelegram]_vars

-----------------------------------------------------------------------------
(* Handover parser                                                         *)

W_JobCompleted == <<"J","o","b"," ","C","o","m","p","l","e","t","e","d">>
W_Outstanding == <<"O","u","t","s","t","a","n","d","i","n","g">>
W_14D == <<"1","4","D">>
W_28D == <<"2","8","D">>
W_56D == <<"5","6","D">>
W_112D == <<"1","1","2","D">>
W_180D == <<"1","8","0","D">>
W_SERV == <<"S","E","R","V">>
W_PROJECTION == <<"P","R","O","J","E","C","T","I","O","N">>
W_112D150 == <<"1","1","2","D","/","1","5","0">>
W_MEE == <<"M","E","E">>
W_EOSS == <<"E","O","S","S">>
W_BRU == <<"B","R","U">>
W_Probe == <<"P","r","o","b","e">>
W_Status == <<"S","t","a","t","u","s">>
W_AOM == <<"A","O","M">>
W_Lessonlearnt == <<"L","e","s","s","o","n"," ","l","e","a","r","n","t">>

\* /^•\s*<n>D\s*SERV\s*PROJECTION/i
ProjPattern(w) == <<Lit(<<BUL>>), Ws, Lit(w), Ws, Lit(W_SERV), Ws, Lit(W_PROJECTION)>>
\* /^■\s*<name>\s*Status/i
StatusPattern(w) == <<Lit(<<SQR>>), Ws, Lit(w), Ws, Lit(W_Status)>>

ExtraSections ==
  {"proj14", "proj28", "proj56", "proj112", "proj112150", "proj180",
   "mee", "eoss", "bru", "probe", "aom", "lessons"}

\* const isMajorHeader = (s) => /^([•■●])\s/.test(s) || /^🟩|^🟥/.test(s)
isMajorHeader(s) ==
  \/ Len(s) >= 2 /\ s[1] \in {BUL, SQR, DOT} /\ IsSpace(s[2])
  \/ Len(s) >= 1 /\ s[1] \in {GRN, RED}

\* startSection: the section and the current code after it ran on `line`
startSection(line, sec, code) ==
  IF PatAnywhere(line, <<Lit(<<GRN>>), Ws, Lit(W_JobCompleted)>>)
    THEN [section |-> "completed", currentCode |-> Null]
  ELSE IF PatAnywhere(line, <<Lit(<<RED>>), Ws, Lit(W_Outstanding)>>)
    THEN [section |-> "outstanding", currentCode |-> Null]
  ELSE IF PatAt(line, 1, ProjPattern(W_14D)) THEN [section |-> "proj14", currentCode |-> code]
  ELSE IF PatAt(line, 1, ProjPattern(W_28D)) THEN [section |-> "proj28", currentCode |-> code]
  ELSE IF PatAt(line, 1, ProjPattern(W_56D)) THEN [section |-> "proj56", currentCode |-> code]
  ELSE IF PatAt(line, 1, <<Lit(<<BUL>>), Ws, Lit(W_112D150), Opt(<<"H">>), Lit(<<"r">>),
                           Opt(<<"l">>), Lit(<<"y">>), Ws, Lit(W_PROJECTION)>>)
    THEN [section |-> "proj112150", currentCode |-> code]
  ELSE IF PatAt(line, 1, ProjPattern(W_112D)) THEN [section |-> "proj112", currentCode |-> code]
  ELSE IF PatAt(line, 1, ProjPattern(W_180D)) THEN [section |-> "proj180", currentCode |-> code]
  ELSE IF PatAt(line, 1, <<Lit(<<SQR>>), Ws, Lit(W_MEE)>>)
    THEN [section |-> "mee", currentCode |-> code]
  ELSE IF PatAt(line, 1, StatusPattern(W_EOSS)) THEN [section |-> "eoss", currentCode |-> code]
  ELSE IF PatAt(line, 1, StatusPattern(W_BRU)) THEN [section |-> "bru", currentCode |-> code]
  ELSE IF PatAt(line, 1, StatusPattern(W_Probe)) THEN [section |-> "probe", currentCode |-> code]
  ELSE IF PatAt(line, 1, <<Lit(<<DOT>>), Ws, Lit(W_AOM)>>)
    THEN [section |-> "aom", currentCode |-> code]
  ELSE IF PatAt(line, 1, <<Lit(<<DOT>>), Ws, Lit(W_Lessonlearnt)>>)
    THEN [section |-> "lessons", currentCode |-> code]
  ELSE [section |-> sec, currentCode |-> code]

\* mCode = line.match(/^([FS]\d)(?:\s*\(([^)]+)\))?.*$/i)
hotoCodeMatches(line) == IsCodeAt(line, 1)
\* mCode[1].toUpperCase()
hotoCode(line) == toUpperCase(SubSeq(line, 1, 2))
\* mCode[2]?.trim() : "" when the group did not take part in the match
hotoTag(line) ==
  LET p == SkipSpace(line, 3)
      C == {j \in (p + 1)..Len(line) : line[j] = ")"}
  IN  IF p <= Len(line) /\ line[p] = "(" /\ C # {}
         /\ (CHOOSE j \in C : \A k \in C : j <= k) > p + 1
      THEN trim(SubSeq(line, p + 1, (CHOOSE j \in C : \A k \in C : j <= k) - 1))
      ELSE <<>>

\* line.replace(/^[-•]\s*/, "")
stripBullet(line) ==
  IF Len(line) >= 1 /\ line[1] \in {"-", BUL} THEN SubSeq(line, SkipSpace(line, 2), Len(line))
  ELSE line
\* clean.replace(/^>\s*/, r)
replaceGt(s, r) ==
  IF Len(s) >= 1 /\ s[1] = ">" THEN r \o SubSeq(s, SkipSpace(s, 2), Len(s)) ELSE s
\* /^[-•>]/
isBulletLine(line) == Len(line) >= 1 /\ line[1] \in {"-", BUL, ">"}

\* the branch of the loop body that a (trimmed) line takes
hotoLineKind(line, sec, code) ==
  IF line = <<>> THEN "empty"
  ELSE IF isMajorHeader(line) THEN "header"
  ELSE IF sec \in {"completed", "outstanding"} THEN
         IF hotoCodeMatches(line) THEN "code"
         ELSE IF isBulletLine(line) /\ code # Null THEN "bullet"
         ELSE IF code # Null THEN "plain"
         ELSE "nocode"
  ELSE IF sec \in ExtraSections THEN "extra"
  ELSE "nosection"

\* a hotoOpenCode that sets the tag from every code line, with or without parentheses
hotoOpenCode_SetTag(o, sec, code, tag) ==
  IF sec = "completed"
  THEN IF code \in DOMAIN o.completed THEN o
       ELSE [o EXCEPT !.completed = (code :> <<>>) @@ @]
  ELSE LET had == code \in DOMAIN o.outstanding
           old == IF had THEN o.outstanding[code] ELSE [tag |-> <<>>, items |-> <<>>]
       IN  [o EXCEPT !.outstanding = (code :> [old EXCEPT !.tag = tag]) @@ @]

\* a hotoOpenCode that starts the list of the code afresh
hotoOpenCode_Reset(o, sec, code, tag) ==
  IF sec = "completed"
  THEN [o EXCEPT !.completed = (code :> <<>>) @@ @]
  ELSE [o EXCEPT !.outstanding = (code :> [tag |-> tag, items |-> <<>>]) @@ @]

\* out after a code line in the section sec
hotoOpenCode(o, sec, code, tag) ==
  IF sec = "completed"
  THEN IF code \in DOMAIN o.completed THEN o
       ELSE [o EXCEPT !.completed = (code :> <<>>) @@ @]
  ELSE LET had == code \in DOMAIN o.outstanding
           old == IF had THEN o.outstanding[code] ELSE [tag |-> <<>>, items |-> <<>>]
       IN  [o EXCEPT !.outstanding =
              (code :> [old EXCEPT !.tag = IF tag # <<>> THEN tag ELSE old.tag]) @@ @]

\* a hotoPush that files every item under the completed jobs
hotoPush_Completed(o, sec, code, item) ==
  [o EXCEPT !.completed =
     (code :> Append(IF code \in DOMAIN @ THEN @[code] ELSE <<>>, item)) @@ @]

\* out after an item is pushed under the code in the section sec
hotoPush(o, sec, code, item) ==
  IF sec = "completed"
  THEN [o EXCEPT !.completed[code] = Append(@, item)]
  ELSE [o EXCEPT !.outstanding[code].items = Append(@, item)]

HotoLineSet ==
  { <<"RED"," ","O","u","t","s","t","a","n","d","i","n","g">>,
    <<"GRN"," ","J","o","b"," ","C","o","m","p","l","e","t","e","d">>,
    <<"SQR"," ","M","E","E"," ","s","t","a","t","u","s">>,
    <<"F","2"," ","(","M","C",")">>,
    <<"s","3"," ","p","e","n","d","i","n","g">>,
    <<"-"," ","c","h","e","c","k"," ","w","i","r","i","n","g">>,
    <<">"," ","s","u","b">>,
    <<"BUL"," ","i","t","e","m">>,
    <<"d","o","n","e">>,
    <<"BUL","1","4","D"," ","S","E","R","V"," ","P","R","O","J","E","C","T","I","O","N">>,
    <<"f","2"," ","x">>,
    <<"f","2"," ","(","A","O","G",")"," ","x">> }

MaxHotoLines == 3

InitHOTO ==
  /\ op = "parseHOTO"
  /\ pc = "call"
  /\ arg \in {join(ls, <<"\n">>) : ls \in SeqUpTo(HotoLineSet, MaxHotoLines)}
  /\ ret = <<>>
  /\ IdleLocals

\* const out = {...}; const lines = text.replace(/\r/g, "").split("\n")
HotoSplit ==
  /\ op = "parseHOTO"
  /\ pc = "call"
  /\ lines' = splitNL(removeCR(arg))
  /\ idx' = 1
  /\ section' = "null"
  /\ currentCode' = Null
  /\ out' = [completed |-> <<>>, outstanding |-> <<>>,
             extra |-> [s \in ExtraSections |-> <<>>]]
  /\ pc' = "loop"
  /\ UNCHANGED <<op, arg, ret>>
  /\ UNCHANGED notHOTO

\* the loop is at a line that takes the branch `kind`
HotoAt(kind) ==
  /\ op = "parseHOTO"
  /\ pc = "loop"
  /\ idx <= Len(lines)
  /\ hotoLineKind(trim(lines[idx]), section, currentCode) = kind

HotoAdvance ==
  /\ idx' = idx + 1
  /\ UNCHANGED <<op, pc, arg, ret, lines>>
  /\ UNCHANGED notHOTO

\* if (!line) continue
HotoEmpty ==
  /\ HotoAt("empty")
  /\ HotoAdvance
  /\ UNCHANGED <<section, currentCode, out>>

\* if (isMajorHeader(line)) { startSection(line); continue; }
HotoHeader ==
  /\ HotoAt("header")
  /\ section' = startSection(trim(lines[idx]), section, currentCode).section
  /\ currentCode' = startSection(trim(lines[idx]), section, currentCode).currentCode
  /\ HotoAdvance
  /\ UNCHANGED out

\* if (mCode) { currentCode = ...; ...; continue; }
HotoCodeLine ==
  /\ HotoAt("code")
  /\ currentCode' = hotoCode(trim(lines[idx]))
  /\ out' = hotoOpenCode(out, section, hotoCode(trim(lines[idx])), hotoTag(trim(lines[idx])))
  /\ HotoAdvance
  /\ UNCHANGED section

\* if (/^[-•>]/.test(line) && currentCode) { ... push(keep); continue; }
HotoBullet ==
  /\ HotoAt("bullet")
  /\ out' = hotoPush(out, section, currentCode,
                     replaceGt(trim(stripBullet(trim(lines[idx]))), <<">", " ">>))
  /\ HotoAdvance
  /\ UNCHANGED <<section, currentCode>>

\* if (currentCode) { ... push(line); continue; }
HotoPlain ==
  /\ HotoAt("plain")
  /\ out' = hotoPush(out, section, currentCode, trim(lines[idx]))
  /\ HotoAdvance
  /\ UNCHANGED <<section, currentCode>>

\* a line in completed/outstanding with no code open: nothing is stored
HotoNoCode ==
  /\ HotoAt("nocode")
  /\ HotoAdvance
  /\ UNCHANGED <<section, currentCode, out>>

\* else if (section && section in out.extra) { ...; out.extra[section].push(clean); }
HotoExtra ==
  /\ HotoAt("extra")
  /\ out' = [out EXCEPT !.extra[section] =
               Append(@, trim(replaceGt(stripBullet(trim(lines[idx])), <<>>)))]
  /\ HotoAdvance
  /\ UNCHANGED <<section, currentCode>>

\* a line before any section header: nothing is stored
HotoNoSection ==
  /\ HotoAt("nosection")
  /\ HotoAdvance
  /\ UNCHANGED <<section, currentCode, out>>

\* return out
HotoReturn ==
  /\ op = "parseHOTO"
  /\ pc = "loop"
  /\ idx > Len(lines)
  /\ ret' = out
  /\ pc' = "done"
  /\ UNCHANGED <<op, arg, lines, idx, section, currentCode, out>>
  /\ UNCHANGED notHOTO

NextHOTO ==
  \/ HotoSplit
  \/ HotoEmpty
  \/ HotoHeader
  \/ HotoCodeLine
  \/ HotoBullet
  \/ HotoPlain
  \/ HotoNoCode
  \/ HotoExtra
  \/ HotoNoSection
  \/ HotoReturn
\* handovers in which codes and section headers come again
HotoRepeatLineSet ==
  { <<"RED"," ","O","u","t","s","t","a","n","d","i","n","g">>,
    <<"SQR"," ","M","E","E"," ","s","t","a","t","u","s">>,
    <<"F","2"," ","(","M","C",")">>,
    <<"-"," ","c","h","e","c","k"," ","w","i","r","i","n","g">>,
    <<"d","o","n","e">>,
    <<>> }
MaxRepeatLines == 5
InitHOTORepeat ==
  /\ op = "parseHOTO"
  /\ pc = "call"
  /\ arg \in {join(ls, <<"\n">>) : ls \in SeqUpTo(HotoRepeatLineSet, MaxRepeatLines)}
  /\ ret = <<>>
  /\ IdleLocals
SpecHOTORepeat == InitHOTORepeat /\ [][NextHOTO]_vars
SpecHOTO == InitHOTO /\ [][NextHOTO]_vars

-----------------------------------------------------------------------------
(* Schedule line parsers (a line holds no line terminator: it comes from   *)
(* a split on "\n")                                                        *)

W_nil == <<"n","i","l">>
W_spare == <<"s","p","a","r","e">>
W_window == <<"w","i","n","d","o","w">>
W_Spare == <<" ","S","p","a","r","e">>
W_NilSpare == <<"N","i","l"," ","S","p","a","r","e">>
W_BMD == <<"B","M","D">>
W_RSD == <<"R","S","D">>

\* the number of consecutive digits of s from position i on
RECURSIVE DigitRun(_, _)
DigitRun(s, i) ==
  IF i >= 1 /\ i <= Len(s) /\ IsDigit(s[i]) THEN 1 + DigitRun(s, i + 1) ELSE 0

\* (\d{3,4}\s*-\s*\d{3,4}) matched from position i: the position after the match, 0 if
\* it does not match there
timeEnd(s, i) ==
  LET n1 == DigitRun(s, i)
      j2 == SkipSpace(s, i + n1)
      j3 == SkipSpace(s, j2 + 1)
      n2 == DigitRun(s, j3)
  IN  IF n1 \in {3, 4} /\ j2 <= Len(s) /\ s[j2] = "-" /\ n2 >= 3
      THEN j3 + (IF n2 > 4 THEN 4 ELSE n2)
      ELSE 0

\* .replace(/\s+/g, "")
removeWs(s) == SelectSeq(s, LAMBDA c : ~IsSpace(c))

\* an isSpareText that takes the word whatever follows it
isSpareText_AnySpare(s) ==
  \E i \in 1..Len(s) : Boundary(s, i) /\ AtCI(s, i, W_spare) /\ Boundary(s, i + 5)

\* /\bspare\b(?!\s*window)/i.test(s)
isSpareText(s) ==
  \E i \in 1..Len(s) :
    /\ Boundary(s, i) /\ AtCI(s, i, W_spare) /\ Boundary(s, i + 5)
    /\ ~\E j \in (i + 5)..SkipSpace(s, i + 5) : AtCI(s, j, W_window)

\* mStd = s.match(/^([FS]\d)\s*[:\-]?\s*(\d{3,4}\s*-\s*\d{3,4})?\s*(.*)$/i)
missionStd(s) == IsCodeAt(s, 1)
\* the position where the optional time group is tried
missionTimeStart(s) ==
  LET p1 == SkipSpace(s, 3)
      p2 == IF p1 <= Len(s) /\ s[p1] \in {":", "-"} THEN p1 + 1 ELSE p1
  IN  SkipSpace(s, p2)
\* (mStd[2] || "").replace(/\s+/g, "")
missionTime(s) ==
  LET p == missionTimeStart(s)
  IN  IF timeEnd(s, p) # 0 THEN removeWs(SubSeq(s, p, timeEnd(s, p) - 1)) ELSE <<>>
\* (mStd[3] || "").trim()
missionRest(s) ==
  LET p == missionTimeStart(s)
      q == IF timeEnd(s, p) # 0 THEN timeEnd(s, p) ELSE p
  IN  trim(SubSeq(s, SkipSpace(s, q), Len(s)))

\* /^spare\b/i.test(rest)
startsSpare(rest) == AtCI(rest, 1, W_spare) /\ Boundary(rest, 6)
\* rest.replace(/^spare/i, "")
stripSpare(rest) == IF AtCI(rest, 1, W_spare) THEN SubSeq(rest, 6, Len(rest)) ELSE rest

\* mAsSpare = s.match(/^([FS]\d).*?\bspare\b/i)
missionAsSpare(s) ==
  /\ IsCodeAt(s, 1)
  /\ \E i \in 3..Len(s) : Boundary(s, i) /\ AtCI(s, i, W_spare) /\ Boundary(s, i + 5)
\* /\bspare\s*window\b/i.test(s)
spareWindow(s) ==
  \E i \in 1..Len(s) :
    /\ Boundary(s, i) /\ AtCI(s, i, W_spare)
    /\ AtCI(s, SkipSpace(s, i + 5), W_window)
    /\ Boundary(s, SkipSpace(s, i + 5) + 6)

\* parseMissionLine(ln): <<the record>>, or <<>> for null
parseMissionLine(ln) ==
  LET s == trim(ln)
  IN  IF s = <<>> \/ toLowerCase(s) = W_nil THEN Null
      ELSE IF missionStd(s) THEN
        LET code == toUpperCase(SubSeq(s, 1, 2))
            time == missionTime(s)
            rest == missionRest(s)
            text == join(SelectSeq(<<time, rest>>, LAMBDA t : t # <<>>), <<" ">>)
        IN  IF isSpareText(s) \/ startsSpare(rest)
            THEN <<[type |-> "spare", code |-> code,
                    label |-> trim(code \o W_Spare \o
                                   (IF stripSpare(rest) # <<>>
                                    THEN <<" ">> \o trim(stripSpare(rest)) ELSE <<>>))]>>
            ELSE <<[type |-> "mission", code |-> code,
                    label |-> IF text # <<>> THEN text ELSE code]>>
      ELSE IF missionAsSpare(s) /\ ~spareWindow(s)
        THEN <<[type |-> "spare", code |-> toUpperCase(SubSeq(s, 1, 2)), label |-> s]>>
      ELSE IF PatAt(s, 1, <<Lit(W_nil), Ws, Lit(W_spare)>>)
        THEN <<[type |-> "spare", code |-> Null, label |-> W_NilSpare]>>
      ELSE IF (AtCI(s, 1, W_BMD) \/ AtCI(s, 1, W_RSD)) /\ Boundary(s, 4)
        THEN <<[type |-> "mission", code |-> Null, label |-> s]>>
      ELSE Null

\* m = s.match(/^([FS]\d)\s*:?\s*(.+)$/i)
healingMatches(s) == IsCodeAt(s, 1) /\ Len(s) > 2
\* m[2].trim(): the greedy pieces give way, last one first, until (.+) has a character
healingRhs(s) ==
  LET p1 == SkipSpace(s, 3)
      p2 == IF p1 <= Len(s) /\ s[p1] = ":" THEN p1 + 1 ELSE p1
      p3 == SkipSpace(s, p2)
  IN  trim(IF p3 <= Len(s) THEN SubSeq(s, p3, Len(s))
           ELSE IF p2 > p1 THEN SubSeq(s, p1, Len(s))
           ELSE SubSeq(s, Len(s), Len(s)))

\* timeRe.exec(rhs) with lastIndex = from - 1: the position of the match, 0 for null
firstTime(r, from) ==
  IF \E i \in from..Len(r) : timeEnd(r, i) # 0
  THEN CHOOSE i \in from..Len(r) :
         timeEnd(r, i) # 0 /\ \A j \in from..(i - 1) : timeEnd(r, j) = 0
  ELSE 0

\* the array times after the while loop
RECURSIVE healingTimes(_, _)
healingTimes(r, from) ==
  LET i == firstTime(r, from)
  IN  IF i = 0 THEN <<>>
      ELSE <<removeWs(SubSeq(r, i, timeEnd(r, i) - 1))>> \o healingTimes(r, timeEnd(r, i))

\* lastIndex after the while loop, as the position of the character it designates
RECURSIVE healingLastIndex(_, _)
healingLastIndex(r, from) ==
  LET i == firstTime(r, from)
  IN  IF i = 0 THEN from ELSE healingLastIndex(r, timeEnd(r, i))

parseHealingLine(ln) ==
  LET s == trim(ln)
  IN  IF s = <<>> \/ toLowerCase(s) = W_nil THEN <<>>
      ELSE IF ~healingMatches(s) THEN <<[code |-> Null, label |-> s]>>
      ELSE
        LET code == toUpperCase(SubSeq(s, 1, 2))
            rhs == healingRhs(s)
            times == healingTimes(rhs, 1)
            trailing == trim(SubSeq(rhs, healingLastIndex(rhs, 1), Len(rhs)))
        IN  IF Len(times) = 0 THEN <<[code |-> code, label |-> rhs]>>
            ELSE [k \in 1..Len(times) |->
                    [code |-> code,
                     label |-> IF trailing # <<>> THEN times[k] \o <<" ">> \o trailing
                               ELSE times[k]]]

MissionCodes == {<<"F","3">>, <<"s","6">>, <<>>}
MissionSeps == {<<" ">>, <<":"," ">>, <<" ","-"," ">>}
\* a five-digit number is no time of day
MissionNonTimes == { <<"1","1","3","0","0","-","2","2","0","0"," ">> }
MissionTimes ==
  { <<>>,
    <<"1","1","3","0"," ","-"," ","2","2","0","0">>,
    <<"9","0","0","-","1","0","0","0"," ">> }
  \cup MissionNonTimes
MissionRests ==
  { <<>>,
    <<"G","H">>,
    <<"S","p","a","r","e">>,
    <<"F","e","r","r","y"," ","S","p","a","r","e"," ","W","i","n","d","o","w">>,
    <<"T","R"," ","a","s"," ","S","p","a","r","e">>,
    <<"S","p","a","r","e"," ","W","i","n","d","o","w">> }
MissionSpecials ==
  { <<"N","i","l"," ","S","p","a","r","e">>,
    <<"n","i","l"," ","s","p","a","r","e"," ","t","o","d","a","y">>,
    <<"S","3"," ","S","p","a","r","e">>,
    <<"F","3"," ","1","1","3","0"," ","-"," ","2","2","0","0"," ","G","H">>,
    <<"n","i","l">>,
    <<"B","M","D">>,
    <<"R","S","D"," ","0","9","0","0">>,
    <<" ">> }
MissionLineSet ==
  {c \o sp \o t \o r : c \in MissionCodes, sp \in MissionSeps,
                      t \in MissionTimes, r \in MissionRests}
  \cup MissionSpecials

HealingCodes == {<<"S","2">>, <<"f","3">>, <<>>}
HealingSeps == {<<>>, <<":">>, <<" ",":"," ">>, <<" ">>}
HealingBodies ==
  { <<>>,
    <<"1","2","0","0"," ","-"," ","1","3","0","0">>,
    <<"1","2","0","0"," ","-"," ","1","3","0","0"," ","1","5","0","0","-","1","6","0","0">>,
    <<"1","2","0","0","-","1","3","0","0"," ","G","R">>,
    <<"1","2","0","0"," ","-"," ","1","3","0","0"," ","1","5","0","0"," ","-"," ",
      "1","6","0","0"," ","G","R">>,
    <<"T","B","C">> }
HealingSpecials == {<<"n","i","l">>, <<" ">>}
HealingLineSet ==
  {c \o sp \o b : c \in HealingCodes, sp \in HealingSeps, b \in HealingBodies}
  \cup HealingSpecials

InitMission ==
  /\ op = "parseMissionLine"
  /\ pc = "call"
  /\ arg \in MissionLineSet
  /\ ret = <<>>
  /\ IdleLocals

ParseMissionLine ==
  /\ op = "parseMissionLine"
  /\ pc = "call"
  /\ ret' = parseMissionLine(arg)
  /\ pc' = "done"
  /\ UNCHANGED <<op, arg>>
  /\ UNCHANGED locals

InitHealing ==
  /\ op = "parseHealingLine"
  /\ pc = "call"
  /\ arg \in HealingLineSet
  /\ ret = <<>>
  /\ IdleLocals

ParseHealingLine ==
  /\ op = "parseHealingLine"
  /\ pc = "call"
  /\ ret' = parseHealingLine(arg)
  /\ pc' = "done"
  /\ UNCHANGED <<op, arg>>
  /\ UNCHANGED locals

NextMission == ParseMissionLine
SpecMission == InitMission /\ [][NextMission]_vars
NextHealing == ParseHealingLine
SpecHealing == InitHealing /\ [][NextHealing]_vars

-----------------------------------------------------------------------------
(* Date header of a flying programme                                       *)

\* The helicopter pictograph of the example header and the em dash of the default
\* label, each one character of the text.
HELI == "HELI"
DASH == "DASH"

\* const months = { jan: 0, january: 0, ... }
months ==
  (<<"j","a","n">> :> 0) @@
  (<<"j","a","n","u","a","r","y">> :> 0) @@
  (<<"f","e","b">> :> 1) @@
  (<<"f","e","b","r","u","a","r","y">> :> 1) @@
  (<<"m","a","r">> :> 2) @@
  (<<"m","a","r","c","h">> :> 2) @@
  (<<"a","p","r">> :> 3) @@
  (<<"a","p","r","i","l">> :> 3) @@
  (<<"m","a","y">> :> 4) @@
  (<<"j","u","n">> :> 5) @@
  (<<"j","u","n","e">> :> 5) @@
  (<<"j","u","l">> :> 6) @@
  (<<"j","u","l","y">> :> 6) @@
  (<<"a","u","g">> :> 7) @@
  (<<"a","u","g","u","s","t">> :> 7) @@
  (<<"s","e","p">> :> 8) @@
  (<<"s","e","p","t">> :> 8) @@
  (<<"s","e","p","t","e","m","b","e","r">> :> 8) @@
  (<<"o","c","t">> :> 9) @@
  (<<"o","c","t","o","b","e","r">> :> 9) @@
  (<<"n","o","v">> :> 10) @@
  (<<"n","o","v","e","m","b","e","r">> :> 10) @@
  (<<"d","e","c">> :> 11) @@
  (<<"d","e","c","e","m","b","e","r">> :> 11)

\* parseInt(s, 10) for a run of digits s
RECURSIVE parseInt(_)
parseInt(s) ==
  IF s = <<>> THEN 0
  ELSE 10 * parseInt(SubSeq(s, 1, Len(s) - 1))
         + ((CHOOSE i \in 1..10 : DigitSeq[i] = s[Len(s)]) - 1)

\* header.replace(/[^\w\s()/-]/g, "")
stripSymbols(s) ==
  SelectSeq(s, LAMBDA c : IsWordCh(c) \/ IsSpace(c) \/ c \in {"(", ")", "/", "-"})

\* line.match(/^(\d{1,2})\s+([A-Za-z]{3,9})(?:\s+(\d{2,4}))?/): <<>> when there is no
\* match, else <<[dd, mon, yr]>> with the three groups (yr <<>> when it took no part)
dateMatch(line) ==
  LET n == DigitRun(line, 1)
      p == SkipSpace(line, n + 1)
      a == AlphaRun(line, p)
      q == p + (IF a > 9 THEN 9 ELSE a)
      r == SkipSpace(line, q)
      d == DigitRun(line, r)
  IN  IF n \in {1, 2} /\ p > n + 1 /\ a >= 3
      THEN << [dd |-> SubSeq(line, 1, n),
               mon |-> SubSeq(line, p, q - 1),
               yr |-> IF r > q /\ d >= 2
                      THEN SubSeq(line, r, r + (IF d > 4 THEN 4 ELSE d) - 1)
                      ELSE <<>>] >>
      ELSE <<>>

\* a yyyy that takes the year token as it stands
dateYear_AsIs(yr, now) == IF yr # <<>> THEN parseInt(yr) ELSE now

\* if (m[3]) { yr = parseInt(m[3], 10); yyyy = yr < 100 ? 2000 + yr : yr } else
\* yyyy = new Date().getFullYear()
dateYear(yr, now) ==
  IF yr # <<>>
  THEN (IF parseInt(yr) < 100 THEN 2000 + parseInt(yr) ELSE parseInt(yr))
  ELSE now

\* String(n).padStart(2, "0")
padStart2(n) == IF Len(String(n)) < 2 THEN <<"0">> \o String(n) ELSE String(n)

\* `${yyyy}-${String(mmIndex + 1).padStart(2, "0")}-${String(dd).padStart(2, "0")}`
isoOf(yyyy, mmIndex, dd) ==
  String(yyyy) \o <<"-">> \o padStart2(mmIndex + 1) \o <<"-">> \o padStart2(dd)

\* line.replace(/\s+\d{4}$/, "")
stripYear(line) ==
  LET n == Len(line)
  IN  IF n >= 5 /\ (\A k \in (n - 3)..n : IsDigit(line[k])) /\ IsSpace(line[n - 4])
      THEN SubSeq(line, 1, SkipSpaceBack(line, n - 4))
      ELSE line

\* x || y for strings
orElse(x, y) == IF x # <<>> THEN x ELSE y

\* a parseDateHeader that dates a header without date on the first day of the year
parseDateHeader_NewYear(header, now) ==
  [iso |-> String(now) \o <<"-", "0", "1", "-", "0", "1">>, label |-> trim(header)]

\* parseDateHeader(header), `now` being the value of new Date().getFullYear()
parseDateHeader(header, now) ==
  LET line == trim(stripSymbols(header))
      m == dateMatch(line)
  IN  IF m = <<>> THEN [iso |-> Null, label |-> orElse(trim(header), <<DASH>>)]
      ELSE LET monName == toLowerCase(m[1].mon)
           IN  [iso |-> IF monName \in DOMAIN months
                        THEN isoOf(dateYear(m[1].yr, now), months[monName], parseInt(m[1].dd))
                        ELSE Null,
                label |-> orElse(trim(stripYear(line)), trim(header))]

DatePrefixes == { <<>>, <<HELI, " ">> }
DateDays == { <<"1","3">>, <<"5">>, <<"3","1">> }
DateMonthWords == { <<"A","u","g">>, <<"A","U","G","U","S","T">>, <<"s","e","p","t">>, <<"S","e","p","t","e","m","b","e","r">>, <<"F","o","o">>, <<"A","u">> }
DateYears == { <<>>, <<" ","2","5">>, <<" ","2","0","2","5">>, <<" ","1","2","3">> }
DateSuffixes == { <<>>, <<" ","(","W","e","d",")">>, <<" ", HELI>> }
dateHeaderOf(pre, d, mon, y, suf) == pre \o d \o <<" ">> \o mon \o y \o suf
DateSpecials ==
  { <<>>, <<"A","u","g"," ","1","3"," ","2","0","2","5">>, <<"1","3","1"," ","A","u","g"," ","2","5">>, <<"1","3","A","u","g"," ","2","5">>, <<"N","o","t","e","s">>, <<HELI>> }
DateHeaderSet ==
  {dateHeaderOf(pre, d, mon, y, suf) :
     pre \in DatePrefixes, d \in DateDays, mon \in DateMonthWords,
     y \in DateYears, suf \in DateSuffixes}
  \cup DateSpecials
\* the years in which the function may be called
NowYears == {2025, 2026}

InitDate ==
  /\ op = "parseDateHeader"
  /\ pc = "call"
  /\ arg \in [header : DateHeaderSet, now : NowYears]
  /\ ret = <<>>
  /\ IdleLocals

ParseDateHeader ==
  /\ op = "parseDateHeader"
  /\ pc = "call"
  /\ ret' = parseDateHeader(arg.header, arg.now)
  /\ pc' = "done"
  /\ UNCHANGED <<op, arg>>
  /\ UNCHANGED locals

NextDate == ParseDateHeader
SpecDate == InitDate /\ [][NextDate]_vars

-----------------------------------------------------------------------------
(* Flying programme of a day                                               *)

W_rts == <<"r","t","s">>
W_healing == <<"h","e","a","l","i","n","g">>
W_hot == <<"h","o","t">>
W_cold == <<"c","o","l","d">>
W_ops == <<"o","p","s">>
W_brief == <<"b","r","i","e","f">>
W_opsbrief == <<"o","p","s"," ","b","r","i","e","f">>
W_notes == <<"n","o","t","e","s">>

\* the section keyword that the trimmed line s starts with, by H_RTS = /^rts\s*:/i,
\* H_HEAL = /^healing\b/i, H_HOT = /^hot\b/i, H_COLD = /^cold\b/i,
\* H_OPS = /^ops\s*brief\b/i, H_NOTES = /^notes\b/i; "none" when isHeader(s) is false
rtsKeyword(s) ==
  IF AtCI(s, 1, W_rts) /\ SkipSpace(s, 4) <= Len(s) /\ s[SkipSpace(s, 4)] = ":" THEN "rts"
  ELSE IF AtCI(s, 1, W_healing) /\ Boundary(s, 8) THEN "healing"
  ELSE IF AtCI(s, 1, W_hot) /\ Boundary(s, 4) THEN "hot"
  ELSE IF AtCI(s, 1, W_cold) /\ Boundary(s, 5) THEN "cold"
  ELSE IF AtCI(s, 1, W_ops) /\ AtCI(s, SkipSpace(s, 4), W_brief)
          /\ Boundary(s, SkipSpace(s, 4) + 5) THEN "ops"
  ELSE IF AtCI(s, 1, W_notes) /\ Boundary(s, 6) THEN "notes"
  ELSE "none"

\* the nextHeaders that the section of a keyword passes to parseSection
nextHeaders(kw) ==
  CASE kw = "rts" -> <<W_healing, W_hot, W_cold, W_opsbrief, W_notes>>
    [] kw = "healing" -> <<W_hot, W_cold, W_opsbrief, W_notes>>
    [] kw = "hot" -> <<W_cold, W_opsbrief, W_notes>>
    [] kw = "cold" -> <<W_opsbrief, W_notes>>
    [] kw = "ops" -> <<W_notes>>
    [] kw = "notes" -> <<>>

\* guard = new RegExp(`^\\s*(?:${nextHeaders...join("|")})\\b`, "i"); guard.test(s):
\* with no header to wait for, the group is empty and the pattern is /^\s*(?:)\b/i
guardTest(s, hs) ==
  LET p == SkipSpace(s, 1)
  IN  IF hs = <<>> THEN Boundary(s, p)
      ELSE \E k \in 1..Len(hs) : AtCI(s, p, hs[k]) /\ Boundary(s, p + Len(hs[k]))

\* while (out.length && !out[out.length - 1].trim()) out.pop()
RECURSIVE popEmpty(_)
popEmpty(ss) ==
  IF ss # <<>> /\ trim(ss[Len(ss)]) = <<>> THEN popEmpty(SubSeq(ss, 1, Len(ss) - 1)) ELSE ss

\* a parseSection that hands back the index of the line before the keyword line
parseSection_Back(ls, startIdx, hs) == [items |-> <<>>, nextIdx |-> startIdx - 2]

\* parseSection(lines, startIdx, nextHeaders); indices count from 1
parseSection(ls, startIdx, hs) ==
  LET stops == {i \in startIdx..Len(ls) : trim(ls[i]) # <<>> /\ guardTest(trim(ls[i]), hs)}
      stop == IF stops = {} THEN Len(ls) + 1 ELSE firstIn(stops)
  IN  [items |-> popEmpty([k \in 1..(stop - startIdx) |-> trim(ls[startIdx + k - 1])]),
       nextIdx |-> stop]

\* the concatenation of a sequence of sequences
RECURSIVE flatten(_)
flatten(ss) == IF ss = <<>> THEN <<>> ELSE Head(ss) \o flatten(Tail(ss))

\* a pushMissions that files every record under the missions
pushMissions_AllMissions(acc, items) ==
  [acc EXCEPT !.missions = @ \o flatten([k \in 1..Len(items) |-> parseMissionLine(items[k])])]

\* items.forEach((ln) => { const m = parseMissionLine(ln); if (!m) return;
\*   if (m.type === "spare") spares.push(m); else missions.push(m); })
pushMissions(acc, items) ==
  LET recs == flatten([k \in 1..Len(items) |-> parseMissionLine(items[k])])
  IN  [acc EXCEPT !.missions = @ \o SelectSeq(recs, LAMBDA m : m.type # "spare"),
                  !.spares = @ \o SelectSeq(recs, LAMBDA m : m.type = "spare")]

\* ln.replace(/[,;]/g, ",").trim()
opsItem(ln) == trim([k \in 1..Len(ln) |-> IF ln[k] = ";" THEN "," ELSE ln[k]])

\* the lists after the items of the section of the keyword kw were taken
pushSection(acc, kw, items) ==
  LET some == SelectSeq(items, LAMBDA ln : \E k \in 1..Len(ln) : ~IsSpace(ln[k]))
      notNil == SelectSeq(some, LAMBDA ln : toLowerCase(ln) # W_nil)
  IN  CASE kw = "rts" -> pushMissions(acc, items)
        [] kw = "healing" ->
             [acc EXCEPT !.healing =
                @ \o flatten([k \in 1..Len(items) |-> parseHealingLine(items[k])])]
        [] kw = "hot" -> [acc EXCEPT !.hot = @ \o notNil]
        [] kw = "cold" -> [acc EXCEPT !.cold = @ \o notNil]
        [] kw = "ops" -> [acc EXCEPT !.ops = @ \o [k \in 1..Len(some) |-> opsItem(some[k])]]
        [] kw = "notes" -> [acc EXCEPT !.notes = @ \o some]

\* let j = i; while (j < lines.length && !isHeader(lines[j].trim())) j++
firstHeader(ls) ==
  LET H == {j \in 2..Len(ls) : rtsKeyword(trim(ls[j])) # "none"}
  IN  IF H = {} THEN Len(ls) + 1 ELSE firstIn(H)

\* the result record when the loop over the sections starts
rtsStart(ls, now) ==
  pushMissions([dateISO |-> parseDateHeader(ls[1], now).iso,
                dateLabel |-> parseDateHeader(ls[1], now).label,
                missions |-> <<>>, spares |-> <<>>, healing |-> <<>>,
                hot |-> <<>>, cold |-> <<>>, ops |-> <<>>, notes |-> <<>>],
               SelectSeq([k \in 1..(firstHeader(ls) - 2) |-> trim(ls[k + 1])],
                         LAMBDA ln : ln # <<>>))

\* one turn of while (i < lines.length): the record and i after it
rtsTurn(ls, i, acc) ==
  LET kw == rtsKeyword(trim(ls[i]))
  IN  IF kw = "none" THEN [acc |-> acc, i |-> i + 1]
      ELSE [acc |-> pushSection(acc, kw, parseSection(ls, i + 1, nextHeaders(kw)).items),
            i |-> parseSection(ls, i + 1, nextHeaders(kw)).nextIdx]

RECURSIVE rtsLoop(_, _, _)
rtsLoop(ls, i, acc) ==
  IF i > Len(ls) THEN acc ELSE rtsLoop(ls, rtsTurn(ls, i, acc).i, rtsTurn(ls, i, acc).acc)

\* parseRTSDaily(text), `now` being the value of new Date().getFullYear()
parseRTSDaily(text, now) ==
  LET ls == splitNL(removeCR(text))
  IN  rtsLoop(ls, firstHeader(ls), rtsStart(ls, now))

RtsHeader == <<"1","3"," ","A","u","g">>
RtsLineSet ==
  { <<"R","T","S",":">>,
    <<"H","e","a","l","i","n","g">>,
    <<"H","o","t">>,
    <<"C","o","l","d">>,
    <<"O","p","s"," ","B","r","i","e","f">>,
    <<"N","o","t","e","s",":">>,
    <<"F","3"," ","1","1","3","0"," ","-"," ","2","2","0","0"," ","G","H">>,
    <<"S","3"," ","S","p","a","r","e">>,
    <<"S","2",":"," ","1","2","0","0"," ","-"," ","1","3","0","0"," ","G","R">>,
    <<"-"," ","n","o","t","e"," ","a",";","b">>,
    <<>> }
MaxRtsLines == 3
RtsTextSet ==
  {<<>>} \cup {join(<<RtsHeader>> \o ls, <<"\n">>) : ls \in SeqUpTo(RtsLineSet, MaxRtsLines)}

InitRTS ==
  /\ op = "parseRTSDaily"
  /\ pc = "call"
  /\ arg \in [text : RtsTextSet, now : NowYears]
  /\ ret = <<>>
  /\ IdleLocals

\* the statements of parseRTSDaily up to the loop over the sections
RtsStart ==
  /\ op = "parseRTSDaily"
  /\ pc = "call"
  /\ lines' = splitNL(removeCR(arg.text))
  /\ idx' = firstHeader(lines')
  /\ out' = rtsStart(lines', arg.now)
  /\ pc' = "loop"
  /\ UNCHANGED <<op, arg, ret>>
  /\ UNCHANGED notRTS

\* a turn of the loop at a line that starts with a section keyword
RtsSection ==
  /\ op = "parseRTSDaily"
  /\ pc = "loop"
  /\ idx <= Len(lines)
  /\ rtsKeyword(trim(lines[idx])) # "none"
  /\ out' = rtsTurn(lines, idx, out).acc
  /\ idx' = rtsTurn(lines, idx, out).i
  /\ UNCHANGED <<op, pc, arg, ret, lines>>
  /\ UNCHANGED notRTS

\* a turn of the loop at any other line: i++
RtsSkip ==
  /\ op = "parseRTSDaily"
  /\ pc = "loop"
  /\ idx <= Len(lines)
  /\ rtsKeyword(trim(lines[idx])) = "none"
  /\ idx' = rtsTurn(lines, idx, out).i
  /\ UNCHANGED <<op, pc, arg, ret, lines, out>>
  /\ UNCHANGED notRTS

\* return { dateISO: iso, dateLabel: label, missions, ... }
RtsReturn ==
  /\ op = "parseRTSDaily"
  /\ pc = "loop"
  /\ idx > Len(lines)
  /\ ret' = out
  /\ pc' = "done"
  /\ UNCHANGED <<op, arg, lines, idx, out>>
  /\ UNCHANGED notRTS

NextRTS ==
  \/ RtsStart
  \/ RtsSection
  \/ RtsSkip
  \/ RtsReturn
SpecRTS == InitRTS /\ [][NextRTS]_vars

-----------------------------------------------------------------------------
(* Flying programme of a week                                              *)

W_RTSLine == <<"R","T","S",":","\n">>

\* dayRe = /^\s*\d{1,2}\s+[A-Za-z]{3,9}(?:\s+\d{2,4})?\s*(?:\([^)]+\))?/ ; dayRe.test(s)
dayRe(s) ==
  LET p == SkipSpace(s, 1)
      n == DigitRun(s, p)
      q == SkipSpace(s, p + n)
  IN  n \in {1, 2} /\ q > p + n /\ AlphaRun(s, q) >= 3

\* the elements of a finite set of numbers, in increasing order
RECURSIVE ascending(_)
ascending(S) == IF S = {} THEN <<>> ELSE <<firstIn(S)>> \o ascending(S \ {firstIn(S)})

\* a splitWeekIntoDays that cuts one block, from the first date line to the end
splitWeekIntoDays_OneBlock(text) ==
  LET ls == splitNL(removeCR(text))
      D == {i \in 1..Len(ls) : dayRe(trim(ls[i]))}
  IN  IF D = {} THEN <<>> ELSE <<trim(join(SubSeq(ls, firstIn(D), Len(ls)), <<"\n">>))>>

\* splitWeekIntoDays(text)
splitWeekIntoDays(text) ==
  LET ls == splitNL(removeCR(text))
      idxs == ascending({i \in 1..Len(ls) : dayRe(trim(ls[i]))})
      chunk(k) == trim(join(SubSeq(ls, idxs[k],
                                   IF k + 1 <= Len(idxs) THEN idxs[k + 1] - 1 ELSE Len(ls)),
                            <<"\n">>))
  IN  SelectSeq([k \in 1..Len(idxs) |-> chunk(k)], LAMBDA c : c # <<>>)

\* hasAnyHeader = /(RTS:|Healing|Notes|Hot|Cold|Ops Brief)/i.test(body)
hasAnyHeader(body) ==
  \E i \in 1..Len(body) :
    \E w \in {W_rts \o <<":">>, W_healing, W_notes, W_hot, W_cold, W_opsbrief} : AtCI(body, i, w)

\* a weekBody that files the lines of a body without keyword under Healing
weekBody_Healing(body) == IF hasAnyHeader(body) THEN body ELSE W_healing \o <<"\n">> \o body

\* if (!hasAnyHeader) body = `RTS:\n${body}`
weekBody(body) == IF hasAnyHeader(body) THEN body ELSE W_RTSLine \o body

\* the function that parseRTSWeek maps over the blocks
weekDay(chunk, now) ==
  LET ls == splitNL(chunk)
      label == parseDateHeader(ls[1], now).label
      body == join(Tail(ls), <<"\n">>)
  IN  parseRTSDaily(label \o <<"\n">> \o weekBody(body), now)

\* parseRTSWeek(text), `now` being the value of new Date().getFullYear()
parseRTSWeek(text, now) ==
  [k \in 1..Len(splitWeekIntoDays(text)) |-> weekDay(splitWeekIntoDays(text)[k], now)]

WeekLineSet ==
  { <<"1","1"," ","A","u","g"," ","(","M","o","n",")">>,
    <<"1","2"," ","A","u","g"," ","2","0","2","5">>,
    <<"F","3"," ","1","1","3","0"," ","-"," ","2","2","0","0"," ","G","H">>,
    <<"S","3"," ","S","p","a","r","e">>,
    <<"H","e","a","l","i","n","g">>,
    <<"S","2",":"," ","1","2","0","0"," ","-"," ","1","3","0","0"," ","G","R">>,
    <<>> }
MaxWeekLines == 4

InitWeek ==
  /\ op = "parseRTSWeek"
  /\ pc = "call"
  /\ arg \in [text : {join(ls, <<"\n">>) : ls \in SeqUpTo(WeekLineSet, MaxWeekLines)},
              now : NowYears]
  /\ ret = <<>>
  /\ IdleLocals

\* const blocks = splitWeekIntoDays(text)
WeekSplit ==
  /\ op = "parseRTSWeek"
  /\ pc = "call"
  /\ blocks' = splitWeekIntoDays(arg.text)
  /\ idx' = 1
  /\ out' = <<>>
  /\ pc' = "loop"
  /\ UNCHANGED <<op, arg, ret>>
  /\ UNCHANGED notWeek

\* blocks.map((chunk) => { ... }): the entry of the next block
WeekDay ==
  /\ op = "parseRTSWeek"
  /\ pc = "loop"
  /\ idx <= Len(blocks)
  /\ out' = Append(out, weekDay(blocks[idx], arg.now))
  /\ idx' = idx + 1
  /\ UNCHANGED <<op, pc, arg, ret, blocks>>
  /\ UNCHANGED notWeek

\* the array of the entries is returned ([] when there is no block)
WeekReturn ==
  /\ op = "parseRTSWeek"
  /\ pc = "loop"
  /\ idx > Len(blocks)
  /\ ret' = out
  /\ pc' = "done"
  /\ UNCHANGED <<op, arg, blocks, idx, out>>
  /\ UNCHANGED notWeek

NextWeek ==
  \/ WeekSplit
  \/ WeekDay
  \/ WeekReturn
SpecWeek == InitWeek /\ [][NextWeek]_vars

-----------------------------------------------------------------------------
(* Report generator                                                        *)

\* The pictographs of the section titles of the generated report, each one character.
FISH == "FISH"
HEART == "HEART"

\* (genSBirds || "").split(/[,\s]+/): the runs of characters other than "," and space
RECURSIVE splitList(_)
splitList(s) ==
  LET sep(c) == c = "," \/ IsSpace(c)
      S == {i \in 1..Len(s) : sep(s[i])}
      e == IF S = {} THEN Len(s) + 1 ELSE firstIn(S)
  IN  IF s = <<>> THEN <<>>
      ELSE IF e = 1 THEN splitList(Tail(s))
      ELSE <<SubSeq(s, 1, e - 1)>> \o splitList(SubSeq(s, e, Len(s)))

\* Array.from(new Set(xs)): the first occurrence of every element
RECURSIVE unique(_)
unique(xs) ==
  IF xs = <<>> THEN <<>>
  ELSE LET r == unique(SubSeq(xs, 1, Len(xs) - 1))
       IN  IF \E k \in 1..Len(r) : r[k] = xs[Len(xs)] THEN r ELSE Append(r, xs[Len(xs)])

\* sCodes: .map((c) => c.trim().toUpperCase()).filter((c) => /^[FS]\d$/.test(c))
sCodes(genSBirds) ==
  unique(SelectSeq([k \in 1..Len(splitList(genSBirds)) |->
                      toUpperCase(trim(splitList(genSBirds)[k]))],
                   LAMBDA c : Len(c) = 2 /\ c[1] \in {"F", "S"} /\ IsDigit(c[2])))

\* the place of a code in the order of Array.prototype.sort: F before S, then the digit
codeOrder(c) == (IF c[1] = "F" THEN 0 ELSE 10) + parseInt(<<c[2]>>)
\* Object.keys(defectMap).sort()
RECURSIVE sortedCodes(_)
sortedCodes(C) ==
  IF C = {} THEN <<>>
  ELSE LET c == CHOOSE x \in C : \A y \in C : codeOrder(x) <= codeOrder(y)
       IN  <<c>> \o sortedCodes(C \ {c})

\* the fifteen lines pushed before the blocks
genHead(dayHeader, codes, genFishing, genHealing) ==
  << <<"N","i","g","h","t"," ","R","e","p","o","r","t"," ","f","o","r"," ">> \o dayHeader,
     <<>>,
     String(Len(codes)) \o <<" ","x"," ">> \o <<LQ, "S", RQ>> \o <<" ","B","i","r","d">>,
     IF codes # <<>> THEN join(codes, <<",", " ">>) ELSE <<DASH>>,
     <<>>,
     <<"F","i","s","h","i","n","g"," ">> \o <<FISH>>,
     IF genFishing # <<>> THEN genFishing ELSE <<"N","i","l">>,
     <<>>,
     <<"H","e","a","l","i","n","g"," ">> \o <<HEART>>,
     IF genHealing # <<>> THEN genHealing ELSE <<"N","i","l">>,
     <<>>,
     <<"S","t","a","t","u","s"," ">> \o <<HELI>>,
     <<"(","*"," ","d","e","n","o","t","e","s"," ","f","i","t","t","e","d"," ","w","i","t","h"," ","'","S","'"," ","E","O","S","S"," ","T","U",")">>,
     <<"(","^"," ","d","e","n","o","t","e","s"," ","f","i","t","t","e","d"," ","w","i","t","h"," ">> \o <<LQ>> \o <<"U","/","S">> \o <<RQ>> \o <<" "," ","E","O","S","S"," ","T","U",")">>,
     <<>> >>

\* `> ${g}` for every item
arrows(items) == [k \in 1..Len(items) |-> <<">", " ">> \o items[k]]

\* a genBlock that does not write the Input: line
genBlock_NoInput(code, d, isLast) ==
  << <<"*">> \o code \o <<" ","-"," ","G","R">> >>
  \o (IF d.etr # <<>> THEN << <<"E","T","R",":"," ">> \o d.etr >> ELSE <<>>)
  \o << <<>> >>

\* the lines pushed for the code of a defect record d
genBlock(code, d, isLast) ==
  << <<"*">> \o code \o <<" ","-"," ","G","R">> >>
  \o (IF d.us # <<>> THEN << <<"I","n","p","u","t",":"," ">> \o d.us >> ELSE <<>>)
  \o (IF d.etr # <<>> THEN << <<"E","T","R",":"," ">> \o d.etr >> ELSE <<>>)
  \o << <<>> >>
  \o (IF d.defect # <<>> THEN << <<"-"," ","D","e","f","e","c","t",":"," ">> \o d.defect >> ELSE <<>>)
  \o (IF d.rect # <<>> THEN << <<">"," ","R","e","c","t",":"," ">> \o d.rect >> ELSE <<>>)
  \o (IF d.recovery THEN << <<">"," ","P","o","s","t"," ","p","h","a","s","e"," ","r","c","v">>, <<>> >> ELSE <<>>)
  \o (IF d.gr # <<>> THEN << <<"R","e","q","u","i","r","e","m","e","n","t","s">>, <<"-"," ","G","/","R">> >> \o arrows(d.gr) ELSE <<>>)
  \o (IF d.fcf # <<>>
      THEN (IF d.gr = <<>> THEN << <<"R","e","q","u","i","r","e","m","e","n","t","s">> >> ELSE <<>>) \o << <<"-"," ","F","C","F">> >> \o arrows(d.fcf)
      ELSE <<>>)
  \o (IF isLast THEN <<>> ELSE << <<>> >>)

RECURSIVE genBlocks(_, _, _)
genBlocks(defectMap, codes, i) ==
  IF i > Len(codes) THEN <<>>
  ELSE genBlock(codes[i], defectMap[codes[i]], i = Len(codes))
         \o genBlocks(defectMap, codes, i + 1)

\* the lines pushed for the codes of the list that have no defect record
RECURSIVE genServiceable(_)
genServiceable(codes) ==
  IF codes = <<>> THEN <<>>
  ELSE << <<"*">> \o codes[1] \o <<" ","-"," ","S">>, <<>> >> \o genServiceable(Tail(codes))

\* the array lines of handleGenerate after its last push
genLines(tgText, genSBirds, genFishing, genHealing, dayHeader) ==
  LET defectMap == parseTelegramDefects(tgText)
      codes == sCodes(genSBirds)
      defectCodes == sortedCodes(DOMAIN defectMap)
  IN  genHead(dayHeader, codes, genFishing, genHealing)
        \o genBlocks(defectMap, defectCodes, 1)
        \o (IF defectCodes # <<>> THEN << <<>> >> ELSE <<>>)
        \o genServiceable(SelectSeq(codes, LAMBDA c : c \notin DOMAIN defectMap))

GenBlockSet ==
  { <<"S","3">>,
    <<"f","2">>,
    <<"D","e","f","e","c","t",":"," ","a","b","c","\n","R","e","c","t",":"," ","f","i","x">>,
    <<"E","T","R",":"," ","1","2","0","0">>,
    <<"D","a","t","e","/","T","i","m","e"," ","'","U","/","S","'",":"," ","1"," ","J","a","n">>,
    <<"G","/","r","u","n"," ","r","e","q","u","i","r","e","m","e","n","t",":","\n","-"," ","a","\n","F","C","F"," ","r","e","q","u","i","r","e","m","e","n","t",":"," ","c">>,
    <<"G","/","r","u","n"," ","r","e","q","u","i","r","e","m","e","n","t",":","\n","-"," ","S","6"," ","-"," ","b">>,
    <<"p","o","s","t"," ","p","h","a","s","e"," "," ","r","c","v">> }
MaxGenBlocks == 3
GenBirdSet ==
  { <<"F","2",","," ","F","3",","," ","S","3">>,
    <<"s","3"," ","x",",","f","9",",",",","F","2"," ","f","2"," ","S","1","2">>,
    <<>> }
\* formatDayHeader(selectedDate), in the locale of the browser
GenDayHeaders == { <<"1","3"," ","A","u","g"," ","(","W","e","d",")">>, <<"N","a","N"," ","I","n","v","a","l","i","d"," ","D","a","t","e"," ","(","I","n","v","a","l","i","d"," ","D","a","t","e",")">> }

InitGenerate ==
  /\ op = "handleGenerate"
  /\ pc = "call"
  /\ arg \in [tgText : {join(bs, <<"\n", "\n">>) : bs \in SeqUpTo(GenBlockSet, MaxGenBlocks)},
              genSBirds : GenBirdSet,
              genFishing : {<<"N","i","l">>},
              genHealing : {<<>>},
              dayHeader : GenDayHeaders]
  /\ ret = <<>>
  /\ IdleLocals

\* const lines = []; lines.push(...) up to the last push
GenLines ==
  /\ op = "handleGenerate"
  /\ pc = "call"
  /\ lines' = genLines(arg.tgText, arg.genSBirds, arg.genFishing, arg.genHealing,
                       arg.dayHeader)
  /\ pc' = "lines"
  /\ UNCHANGED <<op, arg, ret, out>>
  /\ UNCHANGED notGenerate

\* setRaw(lines.join("\n")); out holds raw
GenSetRaw ==
  /\ op = "handleGenerate"
  /\ pc = "lines"
  /\ out' = join(lines, <<"\n">>)
  /\ pc' = "raw"
  /\ UNCHANGED <<op, arg, ret, lines>>
  /\ UNCHANGED notGenerate

\* const parsed = useMemo(() => parseReport(raw), [raw])
GenParsed ==
  /\ op = "handleGenerate"
  /\ pc = "raw"
  /\ ret' = parseReport(out)
  /\ pc' = "done"
  /\ UNCHANGED <<op, arg, lines, out>>
  /\ UNCHANGED notGenerate

NextGenerate ==
  \/ GenLines
  \/ GenSetRaw
  \/ GenParsed
SpecGenerate == InitGenerate /\ [][NextGenerate]_vars

-----------------------------------------------------------------------------
(* Ticked handover items                                                   *)

\* `${code}|${item}`
tickKey(code, item) == code \o <<"|">> \o item
\* hotoTicks[key], as a condition
isTicked(ticks, key) == key \in DOMAIN ticks /\ ticks[key]
\* hotoDone[code] || []
doneOf(done, code) == IF code \in DOMAIN done THEN done[code] ELSE <<>>
\* array.includes(x)
includes(xs, x) == \E k \in 1..Len(xs) : xs[k] = x

\* the inner forEach over group.items: u is updates[code] (<<>> while undefined) as the
\* array of the members of the Set in the order they were added, n is count
RECURSIVE moveScanItems(_, _, _, _, _, _, _)
moveScanItems(code, items, i, ticks, done, u, n) ==
  IF i > Len(items) THEN [updates |-> u, count |-> n]
  ELSE IF ~isTicked(ticks, tickKey(code, items[i]))
       THEN moveScanItems(code, items, i + 1, ticks, done, u, n)
  ELSE LET v == IF u = <<>> THEN unique(doneOf(done, code)) ELSE u
       IN  IF includes(v, items[i])
           THEN moveScanItems(code, items, i + 1, ticks, done, v, n)
           ELSE moveScanItems(code, items, i + 1, ticks, done, Append(v, items[i]), n + 1)

\* updates after the outer forEach: code -> members, for the codes that got a Set
moveUpdates(hoto, ticks, done) ==
  LET u(code) == moveScanItems(code, hoto.outstanding[code].items, 1, ticks, done, <<>>, 0)
                   .updates
      C == {code \in DOMAIN hoto.outstanding : u(code) # <<>>}
  IN  [code \in C |-> u(code)]
RECURSIVE SumOver(_, _)
SumOver(f, S) ==
  IF S = {} THEN 0
  ELSE LET x == CHOOSE y \in S : TRUE IN f[x] + SumOver(f, S \ {x})
\* count after the outer forEach
moveCount(hoto, ticks, done) ==
  SumOver([code \in DOMAIN hoto.outstanding |->
             moveScanItems(code, hoto.outstanding[code].items, 1, ticks, done, <<>>, 0)
               .count],
          DOMAIN hoto.outstanding)

\* nextDone
moveNextDone(done, updates) ==
  [code \in DOMAIN done \cup DOMAIN updates |->
     IF code \in DOMAIN updates THEN updates[code] ELSE done[code]]
\* a nextTicks that deletes nothing
moveNextTicks_Keep(ticks, updates) == ticks
\* nextTicks
moveNextTicks(ticks, updates) ==
  LET gone == UNION {{tickKey(code, updates[code][k]) : k \in 1..Len(updates[code])} :
                       code \in DOMAIN updates}
  IN  [key \in DOMAIN ticks \ gone |-> ticks[key]]

\* completedMerged
RECURSIVE mergeItems(_, _)
mergeItems(merged, items) ==
  IF items = <<>> THEN merged
  ELSE mergeItems(IF includes(merged, items[1]) THEN merged ELSE Append(merged, items[1]),
                  Tail(items))
completedMerged(hoto, done) ==
  [code \in DOMAIN hoto.completed \cup DOMAIN done |->
     mergeItems(IF code \in DOMAIN hoto.completed THEN hoto.completed[code] ELSE <<>>,
                doneOf(done, code))]
\* isMoved(code, item)
isMoved(done, code, item) == code \in DOMAIN done /\ includes(done[code], item)
\* group.items.filter((t) => !isMoved(code, t)), the items drawn under Outstanding
shownOutstanding(hoto, done, code) ==
  SelectSeq(hoto.outstanding[code].items, LAMBDA t : ~isMoved(done, code, t))

MoveCodes == { <<"F","2">>, <<"S","3">> }
MoveItems == { <<"a">>, <<"b">> }
MaxDoneItems == 2
MoveGroup(items) == [tag |-> <<>>, items |-> items]
\* values of hoto = parseHOTO(hotoRaw)
MoveHotoSet ==
  { [outstanding |-> <<>>, completed |-> <<>>],
    [outstanding |-> (<<"F","2">> :> MoveGroup(<< <<"a">>, <<"b">> >>)),
     completed |-> <<>>],
    [outstanding |-> (<<"F","2">> :> MoveGroup(<< <<"a">> >>))
                       @@ (<<"S","3">> :> MoveGroup(<< <<"b">>, <<"a">> >>)),
     completed |-> (<<"S","3">> :> << <<"b">> >>)],
    [outstanding |-> (<<"F","2">> :> MoveGroup(<< <<"b">>, <<"b">> >>))
                       @@ (<<"S","3">> :> MoveGroup(<< <<"a">> >>)),
     completed |-> (<<"F","2">> :> << <<"b">> >>)] }
MoveKeys == {tickKey(code, item) : code \in MoveCodes, item \in MoveItems}

InitMove ==
  /\ op = "moveTickedToCompleted"
  /\ pc = "call"
  /\ arg \in [hoto : MoveHotoSet]
  /\ ret = <<>>
  /\ hotoTicks \in UNION {[K -> BOOLEAN] : K \in SUBSET MoveKeys}
  /\ hotoDone \in UNION {[C -> SeqUpTo(MoveItems, MaxDoneItems)] : C \in SUBSET MoveCodes}
  /\ selectedDate = Null
  /\ reportTitle = Null
  /\ raw = Null
  /\ hotoRaw = Null
  /\ IdleScratch
  /\ IdleCloud
  /\ IdleLocal

notMove == <<scratchButOut, selectedDate, reportTitle, raw, hotoRaw, cloud, local>>

\* the two forEach loops: out holds updates and count
MoveScan ==
  /\ op = "moveTickedToCompleted"
  /\ pc = "call"
  /\ out' = [updates |-> moveUpdates(arg.hoto, hotoTicks, hotoDone),
             count |-> moveCount(arg.hoto, hotoTicks, hotoDone)]
  /\ pc' = "count"
  /\ UNCHANGED <<op, arg, ret, hotoTicks, hotoDone>>
  /\ UNCHANGED notMove

\* if (count === 0) { alert(...); return; }
MoveNothing ==
  /\ op = "moveTickedToCompleted"
  /\ pc = "count"
  /\ out.count = 0
  /\ ret' = "No ticked items to move."
  /\ pc' = "done"
  /\ UNCHANGED <<op, arg, out, hotoTicks, hotoDone>>
  /\ UNCHANGED notMove

\* if (!confirm(...)) return;
MoveCancel ==
  /\ op = "moveTickedToCompleted"
  /\ pc = "count"
  /\ out.count # 0
  /\ ret' = "cancel"
  /\ pc' = "done"
  /\ UNCHANGED <<op, arg, out, hotoTicks, hotoDone>>
  /\ UNCHANGED notMove

\* setHotoDone(nextDone); setHotoTicks(nextTicks); alert("Moved. ...")
MoveApply ==
  /\ op = "moveTickedToCompleted"
  /\ pc = "count"
  /\ out.count # 0
  /\ hotoDone' = moveNextDone(hotoDone, out.updates)
  /\ hotoTicks' = moveNextTicks(hotoTicks, out.updates)
  /\ ret' = "Moved."
  /\ pc' = "done"
  /\ UNCHANGED <<op, arg, out>>
  /\ UNCHANGED notMove

NextMove ==
  \/ MoveScan
  \/ MoveNothing
  \/ MoveCancel
  \/ MoveApply
SpecMove == InitMove /\ [][NextMove]_vars

-----------------------------------------------------------------------------
(* The App component and the document store                                *)

\* ids of the documents of the collection "reports", "YYYY-MM-DD"
DateList ==
  << <<"2","0","2","5","-","0","8","-","0","9">>,
     <<"2","0","2","5","-","0","8","-","1","0">>,
     <<"2","0","2","5","-","0","9","-","0","1">>,
     <<"2","0","2","5","-","1","0","-","0","2">> >>
MaxDates == 2
Dates == {DateList[k] : k \in 1..MaxDates}
\* the name under which the listener of the collection stands in snapshots
Reports == <<"r","e","p","o","r","t","s">>

\* a.localeCompare(b) < 0 for two ids: the first differing character decides
charRank(c) == IF IsDigit(c) THEN 1 + parseInt(<<c>>) ELSE 0
RECURSIVE idBefore(_, _)
idBefore(a, b) ==
  IF a = <<>> THEN b # <<>>
  ELSE IF b = <<>> THEN FALSE
  ELSE IF a[1] # b[1] THEN charRank(a[1]) < charRank(b[1])
  ELSE idBefore(Tail(a), Tail(b))
\* docs.sort((a, b) => b.id.localeCompare(a.id)), the ids of the result
RECURSIVE newestFirst(_)
newestFirst(S) ==
  IF S = {} THEN <<>>
  ELSE LET n == CHOOSE x \in S : \A y \in S \ {x} : idBefore(y, x)
       IN  <<n>> \o newestFirst(S \ {n})

\* the user object of a signed-in user
SignedIn == <<"user">>
\* the document another client writes
RemoteDoc ==
  [title |-> "", raw |-> "remote", hotoRaw |-> "handover",
   hotoTicks |-> (tickKey(<<"F","2">>, <<"a">>) :> TRUE),
   hotoDone |-> (<<"S","3">> :> << <<"b">> >>), savedBy |-> <<"other">>]
\* the texts typed into the report editor
RawSet == {"typed"}
\* setDoc and deleteDoc calls that may be awaiting their outcome at one time
MaxRequests == 1

\* a test that takes everybody for signed in
signedIn_Anybody == TRUE
\* the negation of `if (!user)`
signedIn == user # Null

\* the fields of the document that handleSave passes to setDoc (updatedAt is left out)
saveData ==
  [title |-> IF reportTitle # "" THEN reportTitle ELSE "Night Report",
   raw |-> raw, hotoRaw |-> hotoRaw, hotoTicks |-> hotoTicks, hotoDone |-> hotoDone,
   savedBy |-> user]

\* loadCloudDate(date): the state it leaves
loadSelectedDate(date) == IF date = Null THEN selectedDate ELSE date
loadDocUnsubRef(date) == IF date = Null THEN docUnsubRef ELSE date
\* a loadCloudDate that does not call docUnsubRef.current()
loadListeners_NoCancel(date) == IF date = Null THEN listeners ELSE listeners \cup {date}
loadListeners(date) ==
  IF date = Null THEN listeners
  ELSE ((IF docUnsubRef # Null THEN listeners \ {docUnsubRef} ELSE listeners) \cup {date})
\* a new listener is sent the document as it stands
loadSnapshots(date) ==
  IF date = Null THEN snapshots
  ELSE (snapshots \cap (loadListeners(date) \cup {Reports})) \cup {date}

\* the effect with the dependencies [followLatest, selectedDate] runs again when one of
\* them changed: the listener of the collection is replaced, and the new one is sent
\* the collection as it stands
afterEffect(snaps, followLatest2, selectedDate2) ==
  IF followLatest2 # followLatest \/ selectedDate2 # selectedDate
  THEN snaps \cup {Reports}
  ELSE snaps

\* a callback that moves the selection only to follow the latest
collectionLoads_FollowOnly(docs) ==
  IF docs = <<>> THEN Null
  ELSE IF followLatest /\ selectedDate # docs[1] THEN docs[1]
  ELSE Null
\* what the callback of the collection listener passes to loadCloudDate (<<>> for no call)
collectionLoads(docs) ==
  IF docs = <<>> THEN Null
  ELSE IF followLatest /\ selectedDate # docs[1] THEN docs[1]
  ELSE IF ~includes(docs, selectedDate) THEN docs[1]
  ELSE Null

InitCloud ==
  /\ op = "App"
  /\ pc = "mounted"
  /\ arg = <<>>
  /\ ret = ""
  /\ user = Null
  /\ selectedDate \in Dates
  /\ reportTitle = "Night Report"
  /\ raw = ""
  /\ followLatest = TRUE
  /\ hotoRaw = ""
  /\ hotoTicks = <<>>
  /\ hotoDone = <<>>
  /\ cloudDates = <<>>
  /\ docUnsubRef = Null
  /\ db \in {<<>>} \cup {(d :> RemoteDoc) : d \in Dates}
  /\ listeners = {}
  /\ snapshots = {Reports}
  /\ requests = {}
  /\ IdleScratch
  /\ IdleLocal

\* ret holds the text of the last alert
still == <<op, pc, arg, scratch, local>>

\* onAuthStateChanged(auth, (u) => setUser(u))
AuthStateChanged ==
  /\ op = "App"
  /\ \E u \in {Null, SignedIn} :
       /\ u # user
       /\ user' = u
  /\ UNCHANGED <<editor, followLatest, cloudDates, docUnsubRef, db, listeners,
                 snapshots, requests>>
  /\ UNCHANGED ret
  /\ UNCHANGED still

\* the callback of the collection listener
CollectionSnapshot ==
  /\ op = "App"
  /\ Reports \in snapshots
  /\ LET docs == newestFirst(DOMAIN db)
         date == collectionLoads(docs)
     IN  /\ cloudDates' = docs
         /\ selectedDate' = loadSelectedDate(date)
         /\ docUnsubRef' = loadDocUnsubRef(date)
         /\ listeners' = loadListeners(date)
         /\ snapshots' = afterEffect(loadSnapshots(date) \ {Reports}, followLatest,
                                     loadSelectedDate(date))
  /\ UNCHANGED <<user, reportTitle, raw, followLatest, hotoRaw, hotoTicks, hotoDone,
                 db, requests>>
  /\ UNCHANGED ret
  /\ UNCHANGED still

\* the callback of the listener of the document of a date
DocSnapshot ==
  /\ op = "App"
  /\ \E date \in listeners \cap snapshots :
       /\ IF date \in DOMAIN db
          THEN /\ reportTitle' = IF db[date].title # "" THEN db[date].title
                                 ELSE "Night Report"
               /\ raw' = db[date].raw
               /\ hotoRaw' = db[date].hotoRaw
               /\ hotoTicks' = db[date].hotoTicks
               /\ hotoDone' = db[date].hotoDone
          ELSE /\ reportTitle' = "Night Report"
               /\ raw' = ""
               /\ hotoRaw' = ""
               /\ hotoTicks' = <<>>
               /\ hotoDone' = <<>>
       /\ snapshots' = snapshots \ {date}
  /\ UNCHANGED <<user, selectedDate, followLatest, cloudDates, docUnsubRef, db,
                 listeners, requests>>
  /\ UNCHANGED ret
  /\ UNCHANGED still

\* onChange of the date input, a click in the history list or on a day of the week:
\* setFollowLatest(false); loadCloudDate(date)
PickDate ==
  /\ op = "App"
  /\ \E date \in Dates \cup {Null} :
       /\ followLatest' = FALSE
       /\ selectedDate' = loadSelectedDate(date)
       /\ docUnsubRef' = loadDocUnsubRef(date)
       /\ listeners' = loadListeners(date)
       /\ snapshots' = afterEffect(loadSnapshots(date), FALSE, loadSelectedDate(date))
  /\ UNCHANGED <<user, reportTitle, raw, hotoRaw, hotoTicks, hotoDone, cloudDates,
                 db, requests>>
  /\ UNCHANGED ret
  /\ UNCHANGED still

\* onChange of the checkbox: setFollowLatest(e.target.checked)
SetFollowLatest ==
  /\ op = "App"
  /\ followLatest' = ~followLatest
  /\ snapshots' = afterEffect(snapshots, ~followLatest, selectedDate)
  /\ UNCHANGED <<user, editor, cloudDates, docUnsubRef, db, listeners, requests>>
  /\ UNCHANGED ret
  /\ UNCHANGED still

\* onChange of the report text: setRaw(e.target.value)
SetRaw ==
  /\ op = "App"
  /\ \E text \in RawSet :
       /\ text # raw
       /\ raw' = text
  /\ UNCHANGED <<user, selectedDate, reportTitle, followLatest, hotoRaw, hotoTicks,
                 hotoDone, cloudDates, docUnsubRef, db, listeners, snapshots, requests>>
  /\ UNCHANGED ret
  /\ UNCHANGED still

\* handleSave up to `await setDoc(...)`
HandleSave ==
  /\ op = "App"
  /\ IF ~signedIn
     THEN /\ ret' = "Please sign in with Google to save."
          /\ UNCHANGED requests
     ELSE /\ Cardinality(requests) < MaxRequests
          /\ requests' = requests \cup {[call |-> "setDoc", date |-> selectedDate,
                                          data |-> saveData]}
          /\ UNCHANGED ret
  /\ UNCHANGED <<user, editor, followLatest, cloudDates, docUnsubRef, db, listeners,
                 snapshots>>
  /\ UNCHANGED still

\* the listeners that are sent a snapshot when the document of the date changes
notified(date) == snapshots \cup {Reports} \cup ({date} \cap listeners)

\* setDoc resolves: the document is written, and handleSave goes on to its alert
SetDocResolves ==
  /\ op = "App"
  /\ \E r \in requests :
       /\ r.call = "setDoc"
       /\ db' = (r.date :> r.data) @@ db
       /\ snapshots' = notified(r.date)
       /\ requests' = requests \ {r}
       /\ ret' = "Saved cloud report."
  /\ UNCHANGED <<user, editor, followLatest, cloudDates, docUnsubRef, listeners>>
  /\ UNCHANGED still

\* setDoc rejects: the catch branch of handleSave
SetDocRejects ==
  /\ op = "App"
  /\ \E r \in requests :
       /\ r.call = "setDoc"
       /\ requests' = requests \ {r}
       /\ ret' = "Save failed."
  /\ UNCHANGED <<user, editor, followLatest, cloudDates, docUnsubRef, db, listeners,
                 snapshots>>
  /\ UNCHANGED still

\* handleDeleteDate(date) up to `await deleteDoc(...)`
HandleDeleteDate ==
  /\ op = "App"
  /\ \E date \in Dates \cup {Null}, confirm \in BOOLEAN :
       /\ IF ~signedIn
          THEN /\ ret' = "Please sign in with Google to delete."
               /\ UNCHANGED requests
          ELSE IF date = Null \/ ~confirm
          THEN UNCHANGED <<ret, requests>>
          ELSE /\ Cardinality(requests) < MaxRequests
               /\ requests' = requests \cup {[call |-> "deleteDoc", date |-> date]}
               /\ UNCHANGED ret
  /\ UNCHANGED <<user, editor, followLatest, cloudDates, docUnsubRef, db, listeners,
                 snapshots>>
  /\ UNCHANGED still

\* deleteDoc resolves
DeleteDocResolves ==
  /\ op = "App"
  /\ \E r \in requests :
       /\ r.call = "deleteDoc"
       /\ db' = [d \in DOMAIN db \ {r.date} |-> db[d]]
       /\ snapshots' = IF r.date \in DOMAIN db THEN notified(r.date) ELSE snapshots
       /\ requests' = requests \ {r}
  /\ UNCHANGED <<user, editor, followLatest, cloudDates, docUnsubRef, listeners>>
  /\ UNCHANGED ret
  /\ UNCHANGED still

\* deleteDoc rejects: the catch branch of handleDeleteDate
DeleteDocRejects ==
  /\ op = "App"
  /\ \E r \in requests :
       /\ r.call = "deleteDoc"
       /\ requests' = requests \ {r}
       /\ ret' = "Delete failed (check Firestore rules/whitelist)."
  /\ UNCHANGED <<user, editor, followLatest, cloudDates, docUnsubRef, db, listeners,
                 snapshots>>
  /\ UNCHANGED still

\* another client saves a report
RemoteWrite ==
  /\ op = "App"
  /\ \E date \in Dates :
       /\ IF date \in DOMAIN db THEN db[date] # RemoteDoc ELSE TRUE
       /\ db' = (date :> RemoteDoc) @@ db
       /\ snapshots' = notified(date)
  /\ UNCHANGED <<user, editor, followLatest, cloudDates, docUnsubRef, listeners,
                 requests>>
  /\ UNCHANGED ret
  /\ UNCHANGED still

\* another client deletes a report
RemoteDelete ==
  /\ op = "App"
  /\ \E date \in DOMAIN db :
       /\ db' = [d \in DOMAIN db \ {date} |-> db[d]]
       /\ snapshots' = notified(date)
  /\ UNCHANGED <<user, editor, followLatest, cloudDates, docUnsubRef, listeners,
                 requests>>
  /\ UNCHANGED ret
  /\ UNCHANGED still

\* the component follows a collection in which no report is deleted
NextCloudKeep ==
  \/ CollectionSnapshot
  \/ DocSnapshot
  \/ PickDate
  \/ SetFollowLatest
  \/ SetRaw
  \/ RemoteWrite
SpecCloudKeep == InitCloud /\ [][NextCloudKeep]_vars

\* the component follows the collection
NextCloud ==
  \/ NextCloudKeep
  \/ RemoteDelete
SpecCloud == InitCloud /\ [][NextCloud]_vars

\* and its user signs in and out, saves and deletes
NextCloudSave ==
  \/ NextCloud
  \/ AuthStateChanged
  \/ HandleSave
  \/ SetDocResolves
  \/ SetDocRejects
  \/ HandleDeleteDate
  \/ DeleteDocResolves
  \/ DeleteDocRejects
SpecCloudSave == InitCloud /\ [][NextCloudSave]_vars

-----------------------------------------------------------------------------
(* The App component of App.jsx and localStorage                           *)

\* { title, raw } of a stored report (savedAt is left out)
reportOf(title, text) == [title |-> IF title # "" THEN title ELSE "Night Report", raw |-> text]
\* the files given to the import: what JSON.parse makes of their text
ImportedReport == [title |-> "", raw |-> "imported"]
FileSet ==
  { [parsed |-> "object", value |-> (DateList[1] :> ImportedReport)],
    [parsed |-> "object", value |-> <<>>],
    [parsed |-> "null", value |-> <<>>],
    [parsed |-> "array", value |-> <<>>],
    [parsed |-> "SyntaxError", value |-> <<>>] }
\* FileReaders that may be reading at one time
MaxReaders == 1

\* Object.keys(obj).sort(), last element (<<>> if there is none)
latestOf(obj) == IF DOMAIN obj = {} THEN Null ELSE newestFirst(DOMAIN obj)[1]
\* obj[date]?.title || "Night Report" and obj[date]?.raw || ""
titleOf(obj, date) ==
  IF date \in DOMAIN obj THEN (IF obj[date].title # "" THEN obj[date].title ELSE "Night Report")
  ELSE "Night Report"
rawOf(obj, date) == IF date \in DOMAIN obj THEN obj[date].raw ELSE ""

\* a merge that reads the reports of the component when the file has been read
importMerged_Now(captured, imported) == imported @@ reports
\* const merged = { ...reports, ...imported }, reports being the value that the
\* handleImport which created the reader closed over
importMerged(captured, imported) == imported @@ captured

\* the state after the effect that loads the saved reports
InitLocal ==
  /\ op = "LocalApp"
  /\ pc = "mounted"
  /\ arg = <<>>
  /\ ret = <<>>
  /\ storage \in {<<>>} \cup {(d :> reportOf("", "stored")) : d \in Dates}
  /\ reports = storage
  /\ selectedDate \in IF storage = <<>> THEN Dates ELSE {latestOf(storage)}
  /\ reportTitle = "Night Report"
  /\ raw = IF storage = <<>> THEN "sample" ELSE "stored"
  /\ readers = {}
  /\ hotoRaw = Null
  /\ hotoTicks = <<>>
  /\ hotoDone = <<>>
  /\ IdleScratch
  /\ IdleCloud

notLocal == <<op, pc, arg, ret, scratch, cloud, hotoRaw, hotoTicks, hotoDone>>

\* onChange of the date input: setSelectedDate(e.target.value)
LocalSetSelectedDate ==
  /\ op = "LocalApp"
  /\ \E date \in Dates \cup {Null} :
       /\ date # selectedDate
       /\ selectedDate' = date
  /\ UNCHANGED <<reportTitle, raw, reports, storage, readers>>
  /\ UNCHANGED notLocal

\* onChange of the text area: setRaw(e.target.value)
LocalSetRaw ==
  /\ op = "LocalApp"
  /\ raw # "typed"
  /\ raw' = "typed"
  /\ UNCHANGED <<selectedDate, reportTitle, reports, storage, readers>>
  /\ UNCHANGED notLocal

\* handleSave()
LocalHandleSave ==
  /\ op = "LocalApp"
  /\ IF selectedDate = Null
     THEN UNCHANGED <<reports, storage>>
     ELSE LET next == (selectedDate :> reportOf(reportTitle, raw)) @@ reports
          IN  /\ reports' = next
              /\ storage' = next
  /\ UNCHANGED <<selectedDate, reportTitle, raw, readers>>
  /\ UNCHANGED notLocal

\* handleLoadDate(date)
LocalHandleLoadDate ==
  /\ op = "LocalApp"
  /\ \E date \in Dates :
       /\ selectedDate' = date
       /\ reportTitle' = titleOf(reports, date)
       /\ raw' = rawOf(reports, date)
  /\ UNCHANGED <<reports, storage, readers>>
  /\ UNCHANGED notLocal

\* handleDeleteDate(date), confirmed
LocalHandleDeleteDate ==
  /\ op = "LocalApp"
  /\ \E date \in DOMAIN reports :
       LET next == [d \in DOMAIN reports \ {date} |-> reports[d]]
       IN  /\ reports' = next
           /\ storage' = next
           /\ IF DOMAIN next # {}
              THEN /\ selectedDate' = latestOf(next)
                   /\ reportTitle' = titleOf(next, latestOf(next))
                   /\ raw' = rawOf(next, latestOf(next))
              ELSE /\ selectedDate' \in Dates
                   /\ reportTitle' = "Night Report"
                   /\ raw' = ""
  /\ UNCHANGED readers
  /\ UNCHANGED notLocal

\* handleImport(e): a reader is created and reader.readAsText(file) called
LocalHandleImport ==
  /\ op = "LocalApp"
  /\ Cardinality(readers) < MaxReaders
  /\ \E file \in FileSet :
       readers' = readers \cup {[reports |-> reports, file |-> file]}
  /\ UNCHANGED <<selectedDate, reportTitle, raw, reports, storage>>
  /\ UNCHANGED notLocal

\* reader.onload
ReaderOnload ==
  /\ op = "LocalApp"
  /\ \E r \in readers :
       /\ readers' = readers \ {r}
       /\ IF r.file.parsed \in {"SyntaxError", "array"}
          THEN UNCHANGED <<selectedDate, reportTitle, raw, reports, storage>>
          ELSE LET merged == importMerged(r.reports, r.file.value)
               IN  /\ reports' = merged
                   /\ storage' = merged
                   /\ IF DOMAIN merged # {}
                      THEN /\ selectedDate' = latestOf(merged)
                           /\ reportTitle' = titleOf(merged, latestOf(merged))
                           /\ raw' = rawOf(merged, latestOf(merged))
                      ELSE UNCHANGED <<selectedDate, reportTitle, raw>>
  /\ UNCHANGED notLocal

NextLocal ==
  \/ LocalSetSelectedDate
  \/ LocalSetRaw
  \/ LocalHandleSave
  \/ LocalHandleLoadDate
  \/ LocalHandleDeleteDate
  \/ LocalHandleImport
  \/ ReaderOnload
SpecLocal == InitLocal /\ [][NextLocal]_vars

-----------------------------------------------------------------------------
(* Specifications                                                          *)

NextCodec == IdToCode
SpecCodec == InitCodec /\ [][NextCodec]_vars

NextStatus == DeriveStatusTag \/ DeriveStatusTagApp
SpecStatus == InitStatus /\ [][NextStatus]_vars

\* the five parsers that produce codes
InitParsers == InitReport \/ InitTelegram \/ InitHOTO \/ InitMission \/ InitHealing
NextParsers == NextReport \/ NextTelegram \/ NextHOTO \/ NextMission \/ NextHealing
SpecParsers == InitParsers /\ [][NextParsers]_vars

\* the five parsers of whole documents
InitDocs == InitReport \/ InitTelegram \/ InitHOTO \/ InitRTS \/ InitWeek
NextDocs == NextReport \/ NextTelegram \/ NextHOTO \/ NextRTS \/ NextWeek
SpecDocs == InitDocs /\ [][NextDocs]_vars

Init == InitCodec \/ InitStatus \/ InitParsers \/ InitDate \/ InitRTS \/ InitWeek
Next == NextCodec \/ NextStatus \/ NextParsers \/ NextDate \/ NextRTS \/ NextWeek
Spec == Init /\ [][Next]_vars

-----------------------------------------------------------------------------
(* Properties                                                              *)

Done(o) == op = o /\ pc = "done"

\* C1: idToCode is total: an id in 251..259 gives "F" and id-250, an id in 260..269
\* gives "S" and id-260, any other id gives its decimal string; each of the 8
\* PLACEHOLDERS gives F or S and one digit (252->F2, 253->F3, 260->S0, 261->S1,
\* 265->S5, 266->S6).
C1_IdToCodeTotal ==
  Done("idToCode") =>
    /\ Len(ret) >= 1
    /\ (arg \in 251..259 => ret = <<"F", DigitSeq[arg - 250 + 1]>>)
    /\ (arg \in 260..269 => ret = <<"S", DigitSeq[arg - 260 + 1]>>)
    /\ (arg \notin 251..269 => ret = String(arg))
    /\ ((\E k \in 1..Len(PLACEHOLDERS) : PLACEHOLDERS[k] = arg) =>
          Len(ret) = 2 /\ ret[1] \in {"F", "S"} /\ IsDigit(ret[2]))
    /\ (arg = 252 => ret = <<"F", "2">>)
    /\ (arg = 253 => ret = <<"F", "3">>)
    /\ (arg = 260 => ret = <<"S", "0">>)
    /\ (arg = 261 => ret = <<"S", "1">>)
    /\ (arg = 265 => ret = <<"S", "5">>)
    /\ (arg = 266 => ret = <<"S", "6">>)

C1_Witness == Done("idToCode") /\ arg = 266 /\ ret = <<"S", "6">>

\* a title with both the defect token and the phase word
TitleDefectAndPhase ==
  <<"S","2"," ","-"," ","D","e","f","e","c","t",":"," ","x"," ","P","h","a","s","e">>

\* C2: deriveStatusTag returns one of the four tags, by fixed priority: the defect
\* signal gives rectification whatever else is present, else the in-phase signal
\* gives in-phase even with the recovery signal, else the recovery signal gives
\* recovery, else serviceable. A title with both "Defect:" and "Phase" is
\* rectification.
C2_StatusPriority ==
  Done("deriveStatusTag") =>
    /\ ret \in {"rectification", "in-phase", "recovery", "serviceable"}
    /\ (hasDefect(arg) => ret = "rectification")
    /\ (~hasDefect(arg) /\ inPhase(arg) => ret = "in-phase")
    /\ (~hasDefect(arg) /\ ~inPhase(arg) /\ recovery(arg) => ret = "recovery")
    /\ (~hasDefect(arg) /\ ~inPhase(arg) /\ ~recovery(arg) => ret = "serviceable")
    /\ (arg.title = TitleDefectAndPhase => ret = "rectification")

C2_Witness ==
  /\ Done("deriveStatusTag")
  /\ arg.title = TitleDefectAndPhase
  /\ inPhase(arg)
  /\ ret = "rectification"

\* the title t has "major serv" or the word "phase"
TitleHasPhaseLanguage(t) ==
  \E i \in 1..Len(t) :
    \/ AtCI(t, i, W_majorserv)
    \/ AtCI(t, i, W_phase) /\ (i + 5 > Len(t) \/ ~IsWordCh(t[i + 5]))

HasToken(s, w) ==
  \E i \in 1..Len(s) : AtCI(s, i, w) /\ (i = 1 \/ ~IsWordCh(s[i - 1]))
HasWord(s, w) ==
  \E i \in 1..Len(s) :
    /\ AtCI(s, i, w)
    /\ (i = 1 \/ ~IsWordCh(s[i - 1]))
    /\ (i + Len(w) > Len(s) \/ ~IsWordCh(s[i + Len(w)]))
DefectSignal(e) ==
  \E s \in {e.title, join(e.notes, <<" ">>)} :
    HasToken(s, W_defect) \/ HasToken(s, W_rect) \/ HasWord(s, W_gr)

\* C4: the defect signal is present exactly when the title or the joined notes hold
\* the token "defect:", the token "rect:" or the standalone word "gr"
\* (case-insensitive), so the tag is rectification exactly then; a note "Rect: ..."
\* alone gives rectification. Stated of every copy of the classifier.
C4_DefectSignal ==
  (Done("deriveStatusTag") \/ Done("deriveStatusTagApp")) =>
    (ret = "rectification" <=> DefectSignal(arg))

\* the same statement of the copy in main.jsx and firebase.js alone
C4_DefectSignalMain ==
  Done("deriveStatusTag") => (ret = "rectification" <=> DefectSignal(arg))

-----------------------------------------------------------------------------
(* Properties of the report parser                                         *)

\* Index of the last header line before line i (0 if none).
LastHeaderBefore(i) ==
  LET H == {j \in 1..(i - 1) : headerMatches(lines[j])}
  IN  IF H = {} THEN 0 ELSE CHOOSE j \in H : \A k \in H : k <= j

\* Index of the last header line for code c (0 if none).
LastHeaderOf(c) ==
  LET H == {j \in 1..Len(lines) : headerMatches(lines[j]) /\ headerCode(lines[j]) = c}
  IN  IF H = {} THEN 0 ELSE CHOOSE j \in H : \A k \in H : k <= j

\* Index of the last line before the next header after line h.
SegmentEnd(h) ==
  LET H == {j \in (h + 1)..Len(lines) : headerMatches(lines[j])}
  IN  IF H = {} THEN Len(lines) ELSE (CHOOSE j \in H : \A k \in H : j <= k) - 1

\* C5: a non-header line changes at most the entry opened by the most recent
\* header line before it and leaves every other entry as it was; a line before the
\* first header changes nothing.
C5_LineTouchesOnlyOpenEntry ==
  [][ (op = "parseReport" /\ pc = "loop" /\ idx' = idx + 1 /\ ~headerMatches(lines[idx])) =>
        /\ DOMAIN entries' = DOMAIN entries
        /\ \A c \in DOMAIN entries :
             (LastHeaderBefore(idx) = 0 \/ c # headerCode(lines[LastHeaderBefore(idx)]))
               => entries'[c] = entries[c]
        /\ (LastHeaderBefore(idx) = 0 => entries' = entries /\ entries = <<>>)
    ]_vars

C5_Witness ==
  /\ op = "parseReport"
  /\ pc = "loop"
  /\ idx = 4
  /\ Cardinality(DOMAIN entries) = 2
  /\ ~headerMatches(lines[3])
  /\ entries[current].notes # <<>>
  /\ \E c \in DOMAIN entries : c # current /\ entries[c].notes = <<>>

\* C6: when a code has several headers, its entry is built only from the last of
\* them and the lines after it: the title is the last header's, and input, etr and
\* notes gathered under the earlier headers are gone.
C6_LastHeaderWins ==
  Done("parseReport") =>
    \A c \in DOMAIN ret :
      /\ LastHeaderOf(c) > 0
      /\ ret[c].title = c \o <<" ", "-", " ">> \o headerTail(lines[LastHeaderOf(c)])
      /\ ret[c] = attachTags(reportLoop(<<>>, Null,
                     SubSeq(lines, LastHeaderOf(c), Len(lines)), 1))[c]

C6_Witness ==
  /\ Done("parseReport")
  /\ \E c \in DOMAIN ret :
       /\ LastHeaderOf(c) = 3
       /\ headerMatches(lines[1]) /\ headerCode(lines[1]) = c
       /\ lines[2] = <<">", " ", "s", "u", "b">>
       /\ ret[c].notes = <<>>
       /\ ret[c].title = <<"S", "2", " ", "-", " ", "S">>

\* the note a line under an entry gives, if any
NoteOfLine(line) ==
  IF line = <<>> THEN <<>>
  ELSE IF line[1] = ">" THEN <<stripGt(line)>>
  ELSE IF line[1] = "-" THEN <<stripDash(line)>>
  ELSE IF toLowerCase(line) = toLowerCase(W_Requirements) THEN <<W_Requirements \o <<":">>>>
  ELSE <<>>

RECURSIVE NotesOfLines(_, _)
NotesOfLines(i, j) == IF i > j THEN <<>> ELSE NoteOfLine(lines[i]) \o NotesOfLines(i + 1, j)

\* C7: the notes of an entry are exactly the texts of the lines under it that start
\* with ">" or "-" (marker stripped) or are "Requirements" (kept as "Requirements:"),
\* in document order; any other line under the entry is stored nowhere.
C7_NotesOnlyFromBullets ==
  Done("parseReport") =>
    \A c \in DOMAIN ret :
      /\ ret[c].notes = NotesOfLines(LastHeaderOf(c) + 1, SegmentEnd(LastHeaderOf(c)))
      /\ \A k \in (LastHeaderOf(c) + 1)..SegmentEnd(LastHeaderOf(c)) :
           reportLineKind(lines[k], c) = "drop" =>
             /\ ret[c].input # lines[k]
             /\ ret[c].etr # lines[k]
             /\ \A n \in 1..Len(ret[c].notes) : ret[c].notes[n] # lines[k]

C7_Witness ==
  /\ Done("parseReport")
  /\ Len(lines) = 3
  /\ lines[2] = <<"n", "o", "i", "s", "e">>
  /\ \E c \in DOMAIN ret :
       /\ LastHeaderOf(c) = 1
       /\ ret[c].notes = << <<"D","e","f","e","c","t",":"," ","l","e","a","k">> >>

\* Value of the last line among lines i..j that the pattern `matches`, or "".
LastValue(i, j, matches(_), value(_)) ==
  LET M == {k \in i..j : matches(lines[k])}
  IN  IF M = {} THEN <<>> ELSE value(lines[CHOOSE k \in M : \A m \in M : m <= k])

\* C8: with several "Input:" (or "ETR:") lines between a header and the next, the
\* entry's input (or etr) is the value of the last of them; it is "" with none.
C8_LastInputWins ==
  Done("parseReport") =>
    \A c \in DOMAIN ret :
      /\ ret[c].input = LastValue(LastHeaderOf(c) + 1, SegmentEnd(LastHeaderOf(c)),
                                  inputMatches, inputValue)
      /\ ret[c].etr = LastValue(LastHeaderOf(c) + 1, SegmentEnd(LastHeaderOf(c)),
                                etrMatches, etrValue)

C8_Witness ==
  /\ Done("parseReport")
  /\ Len(lines) = 3
  /\ lines[2] = <<"I","n","p","u","t",":"," ","0","8","0","8">>
  /\ lines[3] = <<"i","n","p","u","t",":","0","9","0","9">>
  /\ \E c \in DOMAIN ret : ret[c].input = <<"0","9","0","9">> /\ ret[c].etr = <<>>

-----------------------------------------------------------------------------
(* Properties of the codes and of the defect-message parser                *)

\* an upper-case F or S followed by one digit
IsCode(c) == Len(c) = 2 /\ c[1] \in {"F", "S"} /\ IsDigit(c[2])

\* C9: every key and every non-null code field in the output of parseReport,
\* parseTelegramDefects, parseHOTO, parseMissionLine and parseHealingLine is an
\* upper-case F or S followed by one digit, whatever the case of the input, and each
\* entry's code equals the key it is stored under.
C9_CodesNormalized ==
  /\ Done("parseReport") => \A k \in DOMAIN ret : IsCode(k) /\ ret[k].code = k
  /\ Done("parseTelegramDefects") => \A k \in DOMAIN ret : IsCode(k) /\ ret[k].code = k
  /\ Done("parseHOTO") =>
       \A k \in DOMAIN ret.completed \cup DOMAIN ret.outstanding : IsCode(k)
  /\ Done("parseMissionLine") =>
       \A i \in 1..Len(ret) : ret[i].code = Null \/ IsCode(ret[i].code)
  /\ Done("parseHealingLine") =>
       \A i \in 1..Len(ret) : ret[i].code = Null \/ IsCode(ret[i].code)

C9_Witness ==
  /\ Done("parseHOTO")
  /\ Len(lines) = 2
  /\ lines[2] = <<"s","3"," ","p","e","n","d","i","n","g">>
  /\ DOMAIN ret.outstanding = {<<"S","3">>}

\* the whole block is a bare code, white space around it aside
BareCode(b) == Len(trim(b)) = 2 /\ IsCodeAt(trim(b), 1)

\* C10: a block starts a new accumulator exactly when the whole block is a bare
\* code; any other block is appended to the open accumulator, or discarded when no
\* accumulator is open, and in both cases no accumulator is closed.
C10_NewAccumulatorIffBareCode ==
  [][ TgAt =>
        IF BareCode(blocks[idx])
        THEN current' = <<[code |-> toUpperCase(trim(blocks[idx])),
                           lines |-> <<blocks[idx]>>]>>
        ELSE /\ byCode' = byCode
             /\ IF current = Null THEN current' = Null
                ELSE current' = <<[current[1] EXCEPT !.lines = Append(@, blocks[idx])]>>
    ]_vars

\* the code that block i is accumulated under: the code of the last block up to i that
\* holds a code line (<<>> when there is none)
GoverningCode(i) ==
  LET J == {j \in 1..i : codeLine(blocks[j]) # 0}
  IN  IF J = {} THEN Null ELSE codeLineCode(blocks[CHOOSE j \in J : \A k \in J : k <= j])

\* the blocks accumulated under the code c, from block i on, in document order
RECURSIVE BlocksUnder(_, _)
BlocksUnder(c, i) ==
  IF i > Len(blocks) THEN <<>>
  ELSE (IF GoverningCode(i) = c THEN <<blocks[i]>> ELSE <<>>) \o BlocksUnder(c, i + 1)

\* C11: for every code C of the result, the fields of C are extracted from the
\* concatenation, in document order, of all the blocks accumulated under C, also
\* when a code-only block for C occurs more than once in the text.
C11_FieldsFromAllBlocks ==
  Done("parseTelegramDefects") =>
    \A c \in DOMAIN ret :
      ret[c] = extractFields([code |-> c, lines |-> BlocksUnder(c, 1)])

\* a string: a sequence of characters; a list of strings without an empty item
IsString(x) == DOMAIN x = 1..Len(x) /\ \A k \in 1..Len(x) : x[k] \in STRING
IsItemList(x) == DOMAIN x = 1..Len(x) /\ \A k \in 1..Len(x) : IsString(x[k]) /\ x[k] # <<>>
\* the text holds the word w somewhere, in any case
Mentions(s, w) == \E i \in 1..Len(s) : AtCI(s, i, w)

\* C12: every record of the result has us, defect, rect, etr, workcenter, prime and
\* system as strings, gr and fcf as lists and recovery as a boolean; a field whose
\* label is not in the text is "", [] or false; gr and fcf hold no empty item.
C12_RecordShape ==
  Done("parseTelegramDefects") =>
    \A c \in DOMAIN ret :
      LET r == ret[c]
          all == join(r.lines, <<"\n", "\n">>)
      IN  /\ DOMAIN r = {"code", "lines", "us", "defect", "rect", "etr", "recovery",
                         "gr", "fcf", "workcenter", "prime", "system"}
          /\ \A f \in {"us", "defect", "rect", "etr", "workcenter", "prime", "system"} :
               IsString(r[f])
          /\ IsItemList(r.gr) /\ IsItemList(r.fcf)
          /\ r.recovery \in BOOLEAN
          /\ ~Mentions(all, W_US) => r.us = <<>>
          /\ ~Mentions(all, W_defect) => r.defect = <<>>
          /\ ~Mentions(all, W_rect) => r.rect = <<>>
          /\ ~Mentions(all, W_ETR) => r.etr = <<>>
          /\ ~Mentions(all, W_Workcenter) => r.workcenter = <<>>
          /\ ~Mentions(all, W_PrimeTrade) => r.prime = <<>>
          /\ ~Mentions(all, W_System) => r.system = <<>>
          /\ ~Mentions(all, W_Grun) => r.gr = <<>>
          /\ ~Mentions(all, W_FCF) => r.fcf = <<>>
          /\ (~Mentions(all, W_recovery) /\ ~Mentions(all, W_rcv)) => r.recovery = FALSE

C12_Witness ==
  /\ Done("parseTelegramDefects")
  /\ Len(blocks) = 2
  /\ \E c \in DOMAIN ret :
       /\ ret[c].gr = << <<"a">>, <<"b">> >>
       /\ ret[c].fcf = << <<"c">> >>
       /\ ret[c].rect = <<>>
       /\ ret[c].us = <<>>
       /\ ret[c].recovery = FALSE

\* the text holds a line that is the word "Recovery" alone, white space aside
HasRecoveryLine(s) ==
  \E k \in 1..Len(splitNL(s)) : toLowerCase(trim(splitNL(s)[k])) = W_recovery

\* C13: recovery is true for a code exactly when the text accumulated for it holds
\* a line consisting solely of the word "Recovery", at any position in that text,
\* or holds the phrase "post phase rcv" anywhere.
C13_RecoveryIffLineOrPhrase ==
  Done("parseTelegramDefects") =>
    \A c \in DOMAIN ret :
      ret[c].recovery <=>
        (HasRecoveryLine(allOf(ret[c])) \/ postPhaseRcv(allOf(ret[c])))

\* the handover loop is about to read a line
HotoLoopStep == op = "parseHOTO" /\ pc = "loop" /\ idx <= Len(lines)
\* that line, trimmed
HotoLine == trim(lines[idx])
\* the section whose header pattern the line matches, "null" when it matches none
headerOf(line) == startSection(line, "null", Null).section

\* C14: every line that matches one of the fourteen section-header patterns sets
\* the section to that header's section and resets the current code to none, and
\* the line itself is not stored as an item.
C14_HeaderSetsSectionResetsCode ==
  [][(HotoLoopStep /\ headerOf(HotoLine) # "null") =>
       /\ section' = headerOf(HotoLine)
       /\ currentCode' = Null
       /\ out' = out]_vars

\* C15: in a completed or outstanding section with a code open, a line that is no
\* section header and no code line is appended to the list of the open code: with
\* its marker stripped (">" kept as "> ") when it starts with "-", the bullet or
\* ">", verbatim otherwise.
C15_ItemsUnderOpenCode ==
  [][(/\ HotoLoopStep
      /\ section \in {"completed", "outstanding"}
      /\ currentCode # Null
      /\ HotoLine # <<>>
      /\ headerOf(HotoLine) = "null"
      /\ ~hotoCodeMatches(HotoLine)) =>
       out' = hotoPush(out, section, currentCode,
                       IF isBulletLine(HotoLine)
                       THEN replaceGt(trim(stripBullet(HotoLine)), <<">", " ">>)
                       ELSE HotoLine)]_vars

\* C16: while one of the twelve extra sections is open, every non-empty line that
\* is not one of the fourteen section headers is appended to that section's list
\* with its leading marker stripped, a line that begins with the bullet and a
\* space included.
C16_ExtraKeepsEveryLine ==
  [][(/\ HotoLoopStep
      /\ section \in ExtraSections
      /\ HotoLine # <<>>
      /\ headerOf(HotoLine) = "null") =>
       out' = [out EXCEPT !.extra[section] =
                 Append(@, trim(replaceGt(stripBullet(HotoLine), <<>>)))]]_vars

\* the section that is open when line i of ls is read
RECURSIVE sectionBefore(_, _)
sectionBefore(ls, i) ==
  IF i <= 1 THEN "null"
  ELSE LET prev == trim(ls[i - 1])
           sec == sectionBefore(ls, i - 1)
       IN  IF prev # <<>> /\ isMajorHeader(prev) THEN startSection(prev, sec, Null).section
           ELSE sec

\* the code lines for the code c that are read in an outstanding section and carry
\* a parenthesized annotation
taggedLines(ls, c) ==
  {i \in 1..Len(ls) :
     /\ trim(ls[i]) # <<>>
     /\ ~isMajorHeader(trim(ls[i]))
     /\ sectionBefore(ls, i) = "outstanding"
     /\ hotoCodeMatches(trim(ls[i]))
     /\ hotoCode(trim(ls[i])) = c
     /\ hotoTag(trim(ls[i])) # <<>>}

\* the annotation of the last of them, "" when there is none
lastTag(ls, c) ==
  IF taggedLines(ls, c) = {} THEN <<>>
  ELSE hotoTag(trim(ls[CHOOSE i \in taggedLines(ls, c) : \A j \in taggedLines(ls, c) : j <= i]))

HotoExample ==
  << <<RED, " ">> \o W_Outstanding,
     <<"F","2"," ","(","M","C",")">>,
     <<"-"," ","c","h","e","c","k"," ","w","i","r","i","n","g">> >>

\* C17: outstanding[C].tag is the parenthesized annotation of the last code line
\* for C in an outstanding section that carries one (a later code line for C
\* without parentheses leaves it), "" when there is none; the header Outstanding,
\* "F2 (MC)", "- check wiring" give outstanding[F2] = {tag "MC", items ["check wiring"]}.
C17_TagIsLastAnnotation ==
  Done("parseHOTO") =>
    /\ \A c \in DOMAIN ret.outstanding : ret.outstanding[c].tag = lastTag(lines, c)
    /\ lines = HotoExample =>
         ret.outstanding = (<<"F","2">> :> [tag |-> <<"M","C">>,
                                            items |-> << <<"c","h","e","c","k"," ","w","i","r","i","n","g">> >>])

C17_Witness ==
  /\ Done("parseHOTO")
  /\ lines = HotoExample
  /\ ret.outstanding[<<"F","2">>].tag = <<"M","C">>

\* the lists of the handover document, by section and code
hotoKeys(o) ==
  {<<"completed", c>> : c \in DOMAIN o.completed}
    \cup {<<"outstanding", c>> : c \in DOMAIN o.outstanding}
    \cup {<<s, Null>> : s \in ExtraSections}
hotoList(o, k) ==
  IF k[1] = "completed" THEN (IF k[2] \in DOMAIN o.completed THEN o.completed[k[2]] ELSE <<>>)
  ELSE IF k[1] = "outstanding"
       THEN (IF k[2] \in DOMAIN o.outstanding THEN o.outstanding[k[2]].items ELSE <<>>)
  ELSE o.extra[k[1]]
\* the lists that differ between two documents
hotoChanged(o, p) == {k \in hotoKeys(o) \cup hotoKeys(p) : hotoList(o, k) # hotoList(p, k)}

yearMeant(y, now) ==
  IF y = <<>> THEN now
  ELSE IF Len(Tail(y)) = 2 THEN 2000 + parseInt(Tail(y))
  ELSE parseInt(Tail(y))

\* C19: a header "D Month [Y]" resolves to the date of day D, of the month that the
\* table gives for the name (three-letter abbreviation or full name, any case), and
\* of the year 2000 + Y for a two-digit Y, Y for a four-digit Y, the current year
\* when there is none; iso is null when the header does not start with a day and a
\* month or when the month name is unknown; "13 Aug 25 (Wed)" gives 2025-08-13.
C19_DateResolved ==
  Done("parseDateHeader") =>
    /\ \A pre \in DatePrefixes, d \in DateDays, mon \in DateMonthWords,
          y \in {z \in DateYears : Len(z) # 4}, suf \in DateSuffixes :
         arg.header = dateHeaderOf(pre, d, mon, y, suf) =>
           ret.iso = IF toLowerCase(mon) \in DOMAIN months
                     THEN isoOf(yearMeant(y, arg.now), months[toLowerCase(mon)], parseInt(d))
                     ELSE Null
    /\ arg.header \in DateSpecials => ret.iso = Null
    /\ arg.header = <<"1","3"," ","A","u","g"," ","2","5"," ","(","W","e","d",")">> => ret.iso = <<"2","0","2","5","-","0","8","-","1","3">>
    /\ arg.header = <<"5"," ","s","e","p","t">> => ret.iso = String(arg.now) \o <<"-","0","9","-","0","5">>
    /\ arg.header = <<"3","1"," ","A","U","G","U","S","T"," ","2","0","2","5">> => ret.iso = <<"2","0","2","5","-","0","8","-","3","1">>

C19_Witness ==
  /\ Done("parseDateHeader")
  /\ arg.header = <<"1","3"," ","A","u","g"," ","2","5"," ","(","W","e","d",")">>
  /\ arg.now = 2026
  /\ ret.iso = <<"2","0","2","5","-","0","8","-","1","3">>

\* C20: a non-null iso has the form YYYY-MM-DD: four year digits, a two-digit month
\* in 01..12 and a two-digit day, for every header that is accepted.
C20_IsoFormat ==
  (Done("parseDateHeader") /\ ret.iso # Null) =>
    /\ Len(ret.iso) = 10
    /\ \A k \in {1, 2, 3, 4, 6, 7, 9, 10} : IsDigit(ret.iso[k])
    /\ ret.iso[5] = "-" /\ ret.iso[8] = "-"
    /\ parseInt(SubSeq(ret.iso, 6, 7)) \in 1..12

-----------------------------------------------------------------------------
(* Properties of the schedule parsers                                      *)

\* the words of s, in lower case: the pieces between its blanks
RECURSIVE wordsOf(_)
wordsOf(s) ==
  LET p == SkipSpace(s, 1)
      E == {i \in p..Len(s) : IsSpace(s[i])}
      e == IF E = {} THEN Len(s) + 1 ELSE firstIn(E)
  IN  IF p > Len(s) THEN <<>>
      ELSE <<toLowerCase(SubSeq(s, p, e - 1))>> \o wordsOf(SubSeq(s, e, Len(s)))

\* the word "spare" occurs in s and the word after it is not "window"
SpareWord(s) ==
  \E k \in 1..Len(wordsOf(s)) :
    /\ wordsOf(s)[k] = W_spare
    /\ (k = Len(wordsOf(s)) \/ wordsOf(s)[k + 1] # W_window)
\* the first word of s is "spare"
BeginsSpare(s) == wordsOf(s) # <<>> /\ wordsOf(s)[1] = W_spare

\* what parseMissionLine returned is right for a line made of a code, a separator,
\* a time part and a free text; a code alone is labelled bareLabel(code)
MissionCodeLine(c, t, r, bareLabel(_)) ==
  LET time == IF t \in MissionNonTimes THEN <<>> ELSE removeWs(t)
      free == trim(IF t \in MissionNonTimes THEN t \o r ELSE r)
  IN  IF SpareWord(arg) \/ BeginsSpare(free)
      THEN /\ ret # Null
           /\ ret[1].type = "spare"
           /\ ret[1].code = toUpperCase(c)
      ELSE ret = <<[type |-> "mission", code |-> toUpperCase(c),
                    label |-> IF time = <<>> /\ free = <<>> THEN bareLabel(toUpperCase(c))
                              ELSE IF time = <<>> THEN free
                              ELSE IF free = <<>> THEN time
                              ELSE time \o <<" ">> \o free]>>

\* what parseMissionLine returned is right for a line that starts with no code;
\* nilSpare tells the lines that count as "Nil Spare"
MissionCodeless(nilSpare(_)) ==
  IF nilSpare(arg)
  THEN ret = <<[type |-> "spare", code |-> Null, label |-> W_NilSpare]>>
  ELSE IF wordsOf(arg) # <<>> /\ wordsOf(arg)[1] \in {toLowerCase(W_BMD), toLowerCase(W_RSD)}
  THEN ret = <<[type |-> "mission", code |-> Null, label |-> trim(arg)]>>
  ELSE ret = Null

MissionClassified(bareLabel(_), nilSpare(_)) ==
  /\ \A c \in MissionCodes \ {<<>>}, sp \in MissionSeps, t \in MissionTimes, r \in MissionRests :
       arg = c \o sp \o t \o r => MissionCodeLine(c, t, r, bareLabel)
  /\ ~IsCodeAt(trim(arg), 1) => MissionCodeless(nilSpare)
  /\ arg = <<"F","3"," ","1","1","3","0"," ","-"," ","2","2","0","0"," ","G","H">> =>
       ret = <<[type |-> "mission", code |-> <<"F","3">>, label |-> <<"1","1","3","0","-","2","2","0","0"," ","G","H">>]>>
  /\ arg = <<"S","3"," ","S","p","a","r","e">> =>
       ret = <<[type |-> "spare", code |-> <<"S","3">>, label |-> <<"S","3"," ","S","p","a","r","e">>]>>

C23_HealingRecords ==
  Done("parseHealingLine") =>
    LET s == trim(arg)
        rhs == healingRhs(s)
        times == healingTimes(rhs, 1)
        n == Len(times)
        trailing == trim(SubSeq(rhs, healingLastIndex(rhs, 1), Len(rhs)))
    IN  IF s = <<>> \/ toLowerCase(s) = W_nil THEN ret = <<>>
        ELSE IF ~healingMatches(s) THEN ret = <<[code |-> Null, label |-> s]>>
        ELSE IF n = 0 THEN ret = <<[code |-> toUpperCase(SubSeq(s, 1, 2)), label |-> rhs]>>
        ELSE /\ Len(ret) = n
             /\ \A k \in 1..n :
                  /\ ret[k].code = toUpperCase(SubSeq(s, 1, 2))
                  /\ ret[k].label = IF k = n /\ trailing # <<>>
                                    THEN times[k] \o <<" ">> \o trailing
                                    ELSE times[k]

\* a word without the colon that may end it
kwWord(w) == IF w # <<>> /\ w[Len(w)] = ":" THEN SubSeq(w, 1, Len(w) - 1) ELSE w
\* the line starts with one of the section keywords RTS:, Healing, Hot, Cold,
\* Ops Brief, Notes
StartsKeyword(l) ==
  LET ws == wordsOf(l)
  IN  /\ ws # <<>>
      /\ \/ ws[1] = W_rts \o <<":">>
         \/ kwWord(ws[1]) \in {W_healing, W_hot, W_cold, W_notes}
         \/ Len(ws) >= 2 /\ ws[1] = W_ops /\ kwWord(ws[2]) = W_brief
\* the records of the lines after the first line and before the first keyword line
PreRecords(ls) ==
  LET K == {j \in 2..Len(ls) : StartsKeyword(ls[j])}
      j == IF K = {} THEN Len(ls) + 1 ELSE firstIn(K)
  IN  flatten([k \in 1..(j - 2) |-> parseMissionLine(ls[k + 1])])
IsPrefixOf(a, b) == Len(a) <= Len(b) /\ SubSeq(b, 1, Len(a)) = a
RtsRunning == op = "parseRTSDaily" /\ pc \in {"loop", "done"}

\* C21: the lines after the date line and before the first keyword line are given to
\* parseMissionLine, and their records are appended, in the order of the lines, to
\* spares when the type is spare and to missions otherwise; missions holds no spare
\* record and spares no mission record.
C21_PreHeaderLines ==
  RtsRunning =>
    LET preM == SelectSeq(PreRecords(lines), LAMBDA m : m.type = "mission")
        preS == SelectSeq(PreRecords(lines), LAMBDA m : m.type = "spare")
    IN  /\ IsPrefixOf(preM, out.missions)
        /\ IsPrefixOf(preS, out.spares)
        /\ (\A j \in 2..(idx - 1) : ~StartsKeyword(lines[j])) =>
             out.missions = preM /\ out.spares = preS
        /\ \A k \in 1..Len(out.missions) : out.missions[k].type = "mission"
        /\ \A k \in 1..Len(out.spares) : out.spares[k].type = "spare"

C21_Witness ==
  /\ op = "parseRTSDaily"
  /\ pc = "done"
  /\ lines = <<RtsHeader, <<"F","3"," ","1","1","3","0"," ","-"," ","2","2","0","0"," ","G","H">>, <<"S","3"," ","S","p","a","r","e">>, <<"N","o","t","e","s",":">>>>
  /\ ret.missions = <<[type |-> "mission", code |-> <<"F","3">>, label |-> <<"1","1","3","0","-","2","2","0","0"," ","G","H">>]>>
  /\ ret.spares = <<[type |-> "spare", code |-> <<"S","3">>, label |-> <<"S","3"," ","S","p","a","r","e">>]>>

\* the place of the keyword that a line starts with in the sequence RTS, Healing,
\* Hot, Cold, Ops Brief, Notes; 0 when it starts with none
kwRank(l) ==
  LET ws == wordsOf(l)
  IN  IF ~StartsKeyword(l) THEN 0
      ELSE IF ws[1] = W_rts \o <<":">> THEN 1
      ELSE IF kwWord(ws[1]) = W_healing THEN 2
      ELSE IF kwWord(ws[1]) = W_hot THEN 3
      ELSE IF kwWord(ws[1]) = W_cold THEN 4
      ELSE IF ws[1] = W_ops THEN 5
      ELSE 6
\* the first line after line i that starts with a keyword later than that of line i,
\* the end of the text when there is none
LaterStop(ls, i) ==
  LET K == {k \in (i + 1)..Len(ls) : kwRank(ls[k]) > kwRank(ls[i])}
  IN  IF K = {} THEN Len(ls) + 1 ELSE firstIn(K)
RtsAtKeyword ==
  /\ op = "parseRTSDaily"
  /\ pc = "loop"
  /\ idx <= Len(lines)
  /\ StartsKeyword(lines[idx])

\* C24: the scan that a keyword line opens takes the lines after it up to, and not
\* including, the first line that starts with a keyword later in the sequence RTS,
\* Healing, Hot, Cold, Ops Brief, Notes, or up to the end of the text; it stops at no
\* other line, a line that starts with an earlier keyword included.
C24_ScanStopsAtLaterKeyword ==
  [][RtsAtKeyword => idx' = LaterStop(lines, idx)]_vars

\* C25: every non-blank line after a Notes keyword line, up to the end of the text,
\* is in the notes of the result, unchanged and in the order of the text.
C25_NotesVerbatim ==
  Done("parseRTSDaily") =>
    \A i \in 1..Len(lines) :
      (kwRank(lines[i]) = 6 /\ \A j \in 2..(i - 1) : kwRank(lines[j]) # 6) =>
        ret.notes = SelectSeq([k \in 1..(Len(lines) - i) |-> lines[i + k]],
                              LAMBDA l : trim(l) # <<>>)

\* the line reads as a date header: a first word of one or two digits and a second
\* word that begins with three letters
IsDateLine(l) ==
  LET ws == wordsOf(l)
  IN  /\ Len(ws) >= 2
      /\ Len(ws[1]) \in {1, 2}
      /\ \A k \in 1..Len(ws[1]) : IsDigit(ws[1][k])
      /\ Len(ws[2]) >= 3
      /\ \A k \in 1..3 : IsAlpha(ws[2][k])
WeekLines == splitNL(arg.text)
DateLines == ascending({i \in 1..Len(WeekLines) : IsDateLine(WeekLines[i])})

\* C26: parseRTSWeek returns one entry for each line of the text that reads as a
\* date header, in the order of the text (entry k is labelled with the day of the
\* k-th date line), and the text before the first date line adds to no entry: the
\* result is that of the text cut at its first date line; two date lines give
\* exactly two entries.
C26_OneEntryPerDateLine ==
  Done("parseRTSWeek") =>
    /\ Len(ret) = Len(DateLines)
    /\ \A k \in 1..Len(ret) :
         wordsOf(ret[k].dateLabel)[1] = wordsOf(WeekLines[DateLines[k]])[1]
    /\ DateLines # <<>> =>
         ret = parseRTSWeek(join(SubSeq(WeekLines, DateLines[1], Len(WeekLines)), <<"\n">>),
                            arg.now)
    /\ DateLines = <<>> => ret = <<>>

\* a text with records before its first date line and two date lines was parsed
C26_Witness ==
  /\ Done("parseRTSWeek")
  /\ Len(DateLines) = 2
  /\ DateLines[1] > 1
  /\ parseMissionLine(WeekLines[1]) # Null
  /\ Len(ret) = 2

\* C27: the dateISO of every entry of parseRTSWeek is the date that parseDateHeader
\* resolves from the header line of its block; a header line that ends with the
\* year 2025 gives an entry of the year 2025, whatever the current year is.
C27_EntryDateOfHeader ==
  Done("parseRTSWeek") =>
    \A k \in 1..Len(ret) :
      /\ k <= Len(DateLines) =>
           ret[k].dateISO = parseDateHeader(WeekLines[DateLines[k]], arg.now).iso
      /\ ret[k].dateLabel = <<"1","2"," ","A","u","g">> =>
           ret[k].dateISO = <<"2","0","2","5","-","0","8","-","1","2">>

\* the seven lists of an entry
listsOf(e) == <<e.missions, e.spares, e.healing, e.hot, e.cold, e.ops, e.notes>>
WeekRunning == op = "parseRTSWeek" /\ pc \in {"loop", "done"}
\* no line after the header line of the block starts with a section keyword
NoKeywordBody(chunk) == \A j \in 2..Len(splitNL(chunk)) : ~StartsKeyword(splitNL(chunk)[j])

\* C28: the entry of a block whose body has no section keyword, which parseRTSWeek
\* parses with a line "RTS:" put before the body, has the lists that parseRTSDaily
\* gives for the same header and body without that line; both hold the records of
\* parseMissionLine for the body lines, in the order of the lines, and nothing else.
C28_ImplicitRtsSameAsDaily ==
  WeekRunning =>
    \A k \in 1..Len(out) :
      NoKeywordBody(blocks[k]) =>
        LET ls == splitNL(blocks[k])
            body == join(Tail(ls), <<"\n">>)
            recs == PreRecords(ls)
            plain == parseRTSDaily(ls[1] \o <<"\n">> \o body, arg.now)
        IN  /\ listsOf(out[k]) = listsOf(plain)
            /\ listsOf(parseRTSDaily(ls[1] \o <<"\n">> \o W_RTSLine \o body, arg.now))
                 = listsOf(plain)
            /\ listsOf(out[k]) = << SelectSeq(recs, LAMBDA m : m.type = "mission"),
                                    SelectSeq(recs, LAMBDA m : m.type = "spare"),
                                    <<>>, <<>>, <<>>, <<>>, <<>> >>

\* the entry of a block without keyword that holds a mission and a spare was made
C28_Witness ==
  /\ WeekRunning
  /\ out # <<>>
  /\ NoKeywordBody(blocks[1])
  /\ ~hasAnyHeader(join(Tail(splitNL(blocks[1])), <<"\n">>))
  /\ Len(out[1].missions) = 1
  /\ Len(out[1].spares) = 1

\* C29: the output of a parser depends on its text only: parseRTSDaily and
\* parseRTSWeek return for a text what they return for it in any other year of the
\* call (parseReport, parseTelegramDefects and parseHOTO read nothing but the text).
C29_OutputOfTextOnly ==
  /\ Done("parseRTSDaily") => \A y \in NowYears : ret = parseRTSDaily(arg.text, y)
  /\ Done("parseRTSWeek") => \A y \in NowYears : ret = parseRTSWeek(arg.text, y)

\* the text given to the parser is the empty string
EmptyText ==
  IF op \in {"parseRTSDaily", "parseRTSWeek"} THEN arg.text = <<>> ELSE arg = <<>>

\* C30: on the empty string every parser goes on to its return and returns its
\* empty result: parseReport and parseTelegramDefects a mapping without key,
\* parseHOTO no code under completed and outstanding and twelve empty extra lists,
\* parseRTSDaily an entry with dateISO null and seven empty lists, parseRTSWeek [].
C30_EmptyText ==
  EmptyText =>
    /\ pc # "done" => ENABLED NextDocs
    /\ Done("parseReport") => DOMAIN ret = {}
    /\ Done("parseTelegramDefects") => DOMAIN ret = {}
    /\ Done("parseHOTO") =>
         /\ DOMAIN ret.completed = {}
         /\ DOMAIN ret.outstanding = {}
         /\ Cardinality(DOMAIN ret.extra) = 12
         /\ \A s \in DOMAIN ret.extra : ret.extra[s] = <<>>
    /\ Done("parseRTSDaily") =>
         /\ ret.dateISO = Null
         /\ listsOf(ret) = << <<>>, <<>>, <<>>, <<>>, <<>>, <<>>, <<>> >>
    /\ Done("parseRTSWeek") => ret = <<>>

\* parseRTSDaily returned for the empty string
C30_Witness ==
  /\ Done("parseRTSDaily")
  /\ arg.text = <<>>
  /\ ret.dateLabel = <<DASH>>

-----------------------------------------------------------------------------
(* Properties of the parsers as a whole                                    *)

\* the header lines of the report texts, by their parts: markers, code, separator, tail
MarkedHeaderParts ==
  { [m |-> <<>>, c |-> <<"S","2">>, d |-> <<" ","-"," ">>, t |-> <<"G","R">>],
    [m |-> <<"*">>, c |-> <<"s","2">>, d |-> <<" ","-"," ">>, t |-> <<"S">>],
    [m |-> <<">"," ">>, c |-> <<"F","3">>, d |-> <<" ","-"," "," ">>, t |-> <<"P","h","a","s","e">>] }

\* C37: in parseReport a line under an open entry that reads markers, code, "-",
\* tail opens the entry of that code, empty but for its title "CODE - tail", in place
\* of the one the code may have, and makes it the open entry; the notes, input and
\* etr of every other entry stay as they are.
C37_HeaderBeforeNotes ==
  [][ (op = "parseReport" /\ pc = "loop" /\ idx <= Len(lines) /\ current # Null) =>
        \A h \in MarkedHeaderParts :
          lines[idx] = h.m \o h.c \o h.d \o h.t =>
            /\ current' = toUpperCase(h.c)
            /\ DOMAIN entries' = DOMAIN entries \cup {toUpperCase(h.c)}
            /\ entries'[toUpperCase(h.c)] =
                 [code |-> toUpperCase(h.c),
                  title |-> toUpperCase(h.c) \o <<" ", "-", " ">> \o h.t,
                  input |-> <<>>, etr |-> <<>>, notes |-> <<>>]
            /\ \A k \in DOMAIN entries \ {toUpperCase(h.c)} : entries'[k] = entries[k]
    ]_vars

\* the line "> F3 -  Phase" came under the open entry F3, which had the note "sub",
\* and the entry is new
C37_Witness ==
  /\ op = "parseReport"
  /\ pc = "loop"
  /\ idx = 4
  /\ lines = <<<<">"," ","F","3"," ","-"," "," ","P","h","a","s","e">>, <<">"," ","s","u","b">>, <<">"," ","F","3"," ","-"," "," ","P","h","a","s","e">>>>
  /\ current = <<"F", "3">>
  /\ entries[<<"F", "3">>].notes = <<>>

\* C38: no step of the scan of parseHOTO clears or replaces what a list of the
\* document holds: each list of a code, completed or outstanding, and each extra
\* list is after the step what it was before, with at most new items at its end,
\* also when the line is a code or a section header that came before.
C38_ListsAppendOnly ==
  [][ (op = "parseHOTO" /\ pc = "loop" /\ pc' = "loop") =>
        \A k \in hotoKeys(out) :
          /\ k \in hotoKeys(out')
          /\ IsPrefixOf(hotoList(out, k), hotoList(out', k))
    ]_vars

\* the code line F2 came again after an item of F2 and a further line was added
C38_Witness ==
  /\ op = "parseHOTO"
  /\ pc = "loop"
  /\ idx = 6
  /\ lines = <<<<"RED"," ","O","u","t","s","t","a","n","d","i","n","g">>, <<"F","2"," ","(","M","C",")">>, <<"-"," ","c","h","e","c","k"," ","w","i","r","i","n","g">>, <<"F","2"," ","(","M","C",")">>, <<"d","o","n","e">>>>
  /\ out.outstanding[<<"F", "2">>].items = <<<<"c","h","e","c","k"," ","w","i","r","i","n","g">>, <<"d","o","n","e">>>>

\* the lines still to be read by the loop over the sections
RtsLeft == Len(lines) + 1 - idx

\* C39: the loop over the sections of parseRTSDaily ends: the number of lines still
\* to be read is never negative and every turn of the loop makes it smaller, by one
\* line or by the lines of a section, whose scan returns an index behind the keyword
\* line; and in every line given to parseHealingLine a match of the time pattern
\* ends behind the place where it was looked for, so that scan advances as well.
C39_Terminates ==
  /\ [][ (op = "parseRTSDaily" /\ pc = "loop" /\ pc' = "loop") =>
          (idx' > idx /\ RtsLeft' < RtsLeft /\ RtsLeft' >= 0) ]_vars
  /\ [](op = "parseRTSDaily" /\ pc # "call" =>
          /\ RtsLeft >= 0
          /\ pc = "done" => RtsLeft = 0
          /\ \A k \in 1..Len(lines) :
               healingMatches(trim(lines[k])) =>
                 LET rhs == healingRhs(trim(lines[k]))
                 IN  \A from \in 1..Len(rhs) :
                       firstTime(rhs, from) # 0 =>
                         /\ firstTime(rhs, from) >= from
                         /\ timeEnd(rhs, firstTime(rhs, from)) > firstTime(rhs, from))

\* parseRTSDaily returned after a Healing section with a time range was scanned
C39_Witness ==
  /\ Done("parseRTSDaily")
  /\ idx = Len(lines) + 1
  /\ Len(ret.healing) = 1
  /\ \E k \in 1..Len(lines) :
       healingMatches(trim(lines[k])) /\ firstTime(healingRhs(trim(lines[k])), 1) # 0

\* the defect map and the list of serviceable codes that handleGenerate works from
GenDefects == parseTelegramDefects(arg.tgText)
GenListed == {sCodes(arg.genSBirds)[k] : k \in 1..Len(sCodes(arg.genSBirds))}

\* C31: parsing the generated text gives, for every code of the defect map, an entry
\* titled "CODE - GR" tagged rectification with the record's us as input and its etr,
\* for every listed code without a defect record an entry titled "CODE - S" tagged
\* serviceable, and an entry for no other code.
C31_GeneratedRoundTrip ==
  Done("handleGenerate") =>
    /\ \A c \in DOMAIN GenDefects :
         /\ c \in DOMAIN ret
         /\ ret[c].title = c \o <<" ","-"," ","G","R">>
         /\ ret[c].tag = "rectification"
         /\ ret[c].input = GenDefects[c].us
         /\ ret[c].etr = GenDefects[c].etr
    /\ \A c \in GenListed \ DOMAIN GenDefects :
         /\ c \in DOMAIN ret
         /\ ret[c].title = c \o <<" ","-"," ","S">>
         /\ ret[c].tag = "serviceable"
    /\ DOMAIN ret = DOMAIN GenDefects \cup GenListed

\* The same holds of every message none of whose requirement items has the digit 6,
\* the one item of GenBlockSet that reads like a header.
GenRoundTripPlain ==
  (\A k \in 1..Len(arg.tgText) : arg.tgText[k] # "6") => C31_GeneratedRoundTrip

\* the items of the code that are ticked under Outstanding
TickedItems(code) ==
  IF code \in DOMAIN arg.hoto.outstanding
  THEN {t \in MoveItems : /\ includes(arg.hoto.outstanding[code].items, t)
                          /\ isTicked(hotoTicks, tickKey(code, t))}
  ELSE {}
\* how often the item stands in the list
Occurrences(xs, x) == Cardinality({k \in 1..Len(xs) : xs[k] = x})
\* moveTickedToCompleted ends with this step
MoveEnds == op = "moveTickedToCompleted" /\ pc = "count" /\ pc' = "done"

\* C34: a confirmed move puts every ticked Outstanding item that hotoDone[code] lacks
\* into hotoDone[code] exactly once and removes its tick, leaves the list and the ticks
\* of every code without a ticked item as they were, and the moved item is then drawn
\* under Job Completed and not under Outstanding; a call that finds nothing to move or
\* is cancelled leaves hotoDone and hotoTicks as they were.
C34_MoveTicked ==
  [][ MoveEnds =>
        IF ret' = "Moved."
        THEN /\ \A code \in MoveCodes : \A t \in TickedItems(code) :
                  ~includes(doneOf(hotoDone, code), t) =>
                    /\ Occurrences(doneOf(hotoDone', code), t) = 1
                    /\ tickKey(code, t) \notin DOMAIN hotoTicks'
                    /\ includes(completedMerged(arg.hoto, hotoDone')[code], t)
                    /\ ~includes(shownOutstanding(arg.hoto, hotoDone', code), t)
             /\ \A code \in MoveCodes : TickedItems(code) = {} =>
                  /\ (code \in DOMAIN hotoDone') = (code \in DOMAIN hotoDone)
                  /\ doneOf(hotoDone', code) = doneOf(hotoDone, code)
                  /\ \A t \in MoveItems :
                       /\ (tickKey(code, t) \in DOMAIN hotoTicks')
                            = (tickKey(code, t) \in DOMAIN hotoTicks)
                       /\ tickKey(code, t) \in DOMAIN hotoTicks =>
                            hotoTicks'[tickKey(code, t)] = hotoTicks[tickKey(code, t)]
        ELSE UNCHANGED <<hotoDone, hotoTicks>> ]_vars

\* a move was confirmed that put b behind a under F2, while S3 had a tick on an item
\* that is not outstanding and kept it
C34_Witness ==
  /\ Done("moveTickedToCompleted")
  /\ ret = "Moved."
  /\ DOMAIN arg.hoto.outstanding = {<<"F","2">>}
  /\ hotoDone = (<<"F","2">> :> << <<"a">>, <<"b">> >>)
  /\ DOMAIN hotoTicks = {<<"S","3","|","a">>}

\* C33: a snapshot of a collection that is not empty leaves the newest id selected
\* when Follow latest is on, and also when the selected date has no document in it.
C33_FollowNewest ==
  [][ (CollectionSnapshot /\ DOMAIN db # {} /\ (followLatest \/ selectedDate \notin DOMAIN db))
        => /\ selectedDate' \in DOMAIN db
           /\ \A d \in DOMAIN db \ {selectedDate'} : idBefore(d, selectedDate') ]_vars

\* the report of the later of two dates is followed, and its document is in the editor,
\* while the component was mounted on the earlier date
C33_Witness ==
  /\ op = "App"
  /\ followLatest
  /\ DOMAIN db = {DateList[1], DateList[2]}
  /\ cloudDates = <<DateList[2], DateList[1]>>
  /\ selectedDate = DateList[2]
  /\ docUnsubRef = DateList[2]
  /\ raw = "remote"
  /\ Reports \notin snapshots

\* C35: with Follow latest off, a date that was passed to loadCloudDate and has no
\* document stays selected while the user picks no date (no document is deleted in
\* SpecCloudKeep, so such a date is one the user picked).
C35_PickedDateStays ==
  [][ (op = "App" /\ ~followLatest /\ docUnsubRef = selectedDate
         /\ selectedDate \notin DOMAIN db /\ ~PickDate)
        => selectedDate' = selectedDate ]_vars

\* What holds is that a selected date stays while it has a document.
SelectedReportStays ==
  [][ (op = "App" /\ ~followLatest /\ selectedDate \in DOMAIN db /\ ~PickDate)
        => selectedDate' = selectedDate ]_vars

\* the editor shows the document of the date, or the empty report if there is none
ShowsDocument(date) ==
  IF date \in DOMAIN db
  THEN /\ reportTitle' = (IF db[date].title # "" THEN db[date].title ELSE "Night Report")
       /\ raw' = db[date].raw
       /\ hotoRaw' = db[date].hotoRaw
       /\ hotoTicks' = db[date].hotoTicks
       /\ hotoDone' = db[date].hotoDone
  ELSE /\ reportTitle' = "Night Report"
       /\ raw' = ""
       /\ hotoRaw' = ""
       /\ hotoTicks' = <<>>
       /\ hotoDone' = <<>>

\* C36: at most one listener of a document is live, it is the one docUnsubRef cancels
\* and it is for the selected date, the date last passed to loadCloudDate; a snapshot
\* of a document puts the document of the selected date into the editor.
C36_OneDocListener ==
  /\ [](op = "App" =>
          /\ Cardinality(listeners) <= 1
          /\ listeners = (IF docUnsubRef = Null THEN {} ELSE {docUnsubRef})
          /\ listeners \subseteq {selectedDate})
  /\ [][ DocSnapshot => ShowsDocument(selectedDate) ]_vars

\* after the first date was loaded and its report came into the editor, the second
\* date, which has no document, was loaded: its listener is the only one
C36_Witness ==
  /\ op = "App"
  /\ raw = "remote"
  /\ DOMAIN db = {DateList[1]}
  /\ selectedDate = DateList[2]
  /\ docUnsubRef = DateList[2]
  /\ listeners = {DateList[2]}

SignedOutSaveRefused ==
  /\ op = "App"
  /\ ret = "Please sign in with Google to save."
  /\ user = Null
  /\ raw = "typed"
  /\ requests = {}
  /\ db = <<>>

\* C40: when a reader fires onload with a file that parses to an object, every report
\* saved by then under a date the file does not define is in reports and in the stored
\* copy afterwards; with any other file neither changes; and the stored copy is the
\* reports map throughout.
C40_ImportKeepsSaved ==
  /\ [][ (op = "LocalApp" /\ readers' # readers) =>
           \A r \in readers \ readers' :
             IF r.file.parsed \in {"SyntaxError", "array"}
             THEN UNCHANGED <<reports, storage>>
             ELSE \A d \in DOMAIN reports \ DOMAIN r.file.value :
                    /\ d \in DOMAIN reports' /\ reports'[d] = reports[d]
                    /\ d \in DOMAIN storage' /\ storage'[d] = reports[d] ]_vars
  /\ [](op = "LocalApp" => storage = reports)

\* What holds is the second half: the stored copy is the reports map.
StoredIsReports == op = "LocalApp" => storage = reports

=============================================================================
